---- MODULE Spec2Model ----
(***************************************************************************)
(* byschiitv. The playback scheduler (src/byschiitv/server.go): the Server *)
(* object (playlist, index, loop flag, cancel handles, mutex), its control *)
(* operations, GetDuration, and the playerLoop goroutine broken into the   *)
(* steps between which other goroutines can run. The command builder, the  *)
(* supervisor and the duration probe (src/unnamed/part_000) as operators   *)
(* applied to bounded inputs. The queue-based server of main.go.           *)
(***************************************************************************)
EXTENDS Integers, Sequences, FiniteSets, TLC

\* ---------------------------------------------------------------- bounds
MaxLen == 3      \* longest playlist explored
MaxTasks == 2    \* goroutine slots available for playerLoop

Tasks == 1..MaxTasks
Nil == 0         \* a nil context.CancelFunc

\* ------------------------------------------------------ playlist elements
Paths == {"a"}

VideoElement(p) == [kind |-> "video", path |-> p, secs |-> 0]

IdleElement(n) == [kind |-> "idle", path |-> "", secs |-> n]

NoElement == [kind |-> "none", path |-> "", secs |-> 0]

Elements == {VideoElement(p) : p \in Paths} \cup {IdleElement(1)}

\* ------------------------------------------------------------------ state
VARIABLES
    mu,                \* Server.mu: "free", or the name of the holder
    playlist,          \* Server.playlist
    currentlyPlaying,  \* Server.currentlyPlaying (0-based)
    loop,              \* Server.loop
    playerCancel,      \* Server.playerCancel: Nil or the task whose run ctx it cancels
    playerRunning,     \* Server.playerRunning
    currentCancel,     \* Server.currentCancel: Nil or the task whose item ctx it cancels
    pc,                \* position of each playerLoop goroutine
    item,              \* playerLoop's local `item`
    itemIdx,           \* history: the index s.Current() read `item` at
    err,               \* playerLoop's local `err`
    ctxDone,           \* playerLoopCtx of each task is cancelled
    itemDone,          \* itemCtx of each task was cancelled through its own cancel func
    ret,               \* what the last control operation returned
    started,           \* history: StartPlayer has succeeded at least once
    expect,            \* history: the element a skip or a wrap should make the loop stream next
    listed,            \* the slice a caller got from List(), as that caller sees it
    call,              \* one application of a command-builder function: input and result
    probe,             \* one call of GetDuration: its position, input and result
    queue,             \* main.go, Server.queue
    workerCancel,      \* main.go, Server.workerCancel: Nil or the task whose ctx it cancels
    workerRunning,     \* main.go, Server.workerRunning
    currentItem,       \* main.go, Server.currentItem
    worker,            \* main.go, the worker goroutines: position, locals, contexts
    hist               \* history: items enqueued, items that left the queue, items streamed

vars == <<mu, playlist, currentlyPlaying, loop, playerCancel, playerRunning,
          currentCancel, pc, item, itemIdx, err, ctxDone, itemDone, ret,
          started, expect, listed, call, probe,
          queue, workerCancel, workerRunning, currentItem, worker, hist>>

\* the state of the queue-based server of main.go (with mu and currentCancel)
queueVars == <<queue, workerCancel, workerRunning, currentItem, worker, hist>>

loopVars == <<pc, item, itemIdx, err>>

\* state no operation on the playlist, the player or the loop writes
restVars == <<listed, call, probe, queueVars>>

\* ---------------------------------------------------------------- helpers
\* s.playlist[i] with Go's 0-based index
At(i) == playlist[i + 1]

Ret(op, ok, n) ==
    [op |-> op, ok |-> ok, n |-> n, panic |-> FALSE, elem |-> NoElement]

Panic(op) ==
    [op |-> op, ok |-> FALSE, n |-> 0, panic |-> TRUE, elem |-> NoElement]

\* what a caller holds before it has called List()
NoList == [shared |-> FALSE, seq |-> <<>>]

\* no command-builder function has been applied
NoCall == [fn |-> "none"]

NoExpect == [why |-> "none", idx |-> 0]

\* no call of GetDuration has been made
NoProbe ==
    [state |-> "none", index |-> 0, path |-> "", invoked |-> FALSE, err |-> "nil"]

\* calling a context.CancelFunc held in a Server field (nil is not called)
Cancel(c) == IF c = Nil THEN itemDone ELSE [itemDone EXCEPT ![c] = TRUE]

\* itemCtx is derived from playerLoopCtx: done when either was cancelled
Done(t) == ctxDone[t] \/ itemDone[t]

\* the element at currentlyPlaying is the one task t is streaming
Streaming(t) ==
    /\ pc[t] \in {"stream", "running"}
    /\ currentCancel = t
    /\ currentlyPlaying < Len(playlist)
    /\ itemIdx[t] = currentlyPlaying
    /\ item[t] = At(currentlyPlaying)

Alive(t) == pc[t] # "dead"

\* history: an edit below the playing position, made while the element X at
\* currentlyPlaying streams uncancelled, leaves X at index newX of newLen
\* elements with currentlyPlaying still inside the playlist; what should be
\* streamed after X is the element after it, the first one when X is last
\* and loop is set
BelowExpect(newX, newLen) ==
    IF /\ \E t \in Tasks : Streaming(t) /\ ~Done(t)
       /\ newLen >= 2
       /\ currentlyPlaying < newLen
    THEN IF newX + 1 < newLen THEN [why |-> "below", idx |-> newX + 1]
         ELSE IF loop THEN [why |-> "below", idx |-> 0]
         ELSE NoExpect
    ELSE NoExpect

\* ------------------------------------------------------------------- Init
\* NewServer(): loop = true, everything else the zero value
NewServer ==
    /\ mu = "free"
    /\ playlist = <<>>
    /\ currentlyPlaying = 0
    /\ loop = TRUE
    /\ playerCancel = Nil
    /\ playerRunning = FALSE
    /\ currentCancel = Nil
    /\ pc = [t \in Tasks |-> "dead"]
    /\ item = [t \in Tasks |-> NoElement]
    /\ itemIdx = [t \in Tasks |-> 0]
    /\ err = [t \in Tasks |-> "nil"]
    /\ ctxDone = [t \in Tasks |-> FALSE]
    /\ itemDone = [t \in Tasks |-> FALSE]
    /\ ret = Ret("NewServer", TRUE, 0)
    /\ started = FALSE
    /\ expect = NoExpect

\* a queue item is the number of the Enqueue call that added it; 0 is ""
NoItem == 0

\* a worker goroutine that is not running
NoWorker ==
    [pc |-> "dead", item |-> NoItem, err |-> "nil", ctxDone |-> FALSE,
     itemDone |-> FALSE]

\* main.go, NewServer(): &Server{}
NewQueueServer ==
    /\ queue = <<>>
    /\ workerCancel = Nil
    /\ workerRunning = FALSE
    /\ currentItem = NoItem
    /\ worker = [t \in Tasks |-> NoWorker]
    /\ hist = [enqueued |-> 0, left |-> <<>>, streamed |-> <<>>]

Init ==
    /\ NewServer
    /\ listed = NoList
    /\ call = NoCall
    /\ probe = NoProbe
    /\ NewQueueServer

\* ----------------------------------------------------------- playlist ops
ServerAppend(p) ==
    /\ mu = "free"
    /\ Len(playlist) < MaxLen
    /\ playlist' = Append(playlist, VideoElement(p))
    /\ ret' = Ret("Append", TRUE, Len(playlist) + 1)
    /\ expect' = NoExpect
    /\ UNCHANGED <<mu, currentlyPlaying, loop, playerCancel, playerRunning,
                   currentCancel, loopVars, ctxDone, itemDone, started>>
    /\ UNCHANGED restVars

RemoveAt(s, i) == SubSeq(s, 1, i) \o SubSeq(s, i + 2, Len(s))

Remove(index) ==
    /\ mu = "free"
    /\ IF index < 0 \/ index >= Len(playlist)
       THEN /\ ret' = Ret("Remove", FALSE, 0)
            /\ UNCHANGED playlist
       ELSE /\ playlist' = RemoveAt(playlist, index)
            /\ ret' = [Ret("Remove", TRUE, 0) EXCEPT !.elem = At(index)]
    /\ expect' = IF index >= 0 /\ index < Len(playlist) /\ index < currentlyPlaying
                 THEN BelowExpect(currentlyPlaying - 1, Len(playlist) - 1)
                 ELSE NoExpect
    /\ UNCHANGED <<mu, currentlyPlaying, loop, playerCancel, playerRunning,
                   currentCancel, loopVars, ctxDone, itemDone, started>>
    /\ UNCHANGED restVars

Clear ==
    /\ mu = "free"
    /\ playlist' = <<>>
    /\ ret' = Ret("Clear", TRUE, 0)
    /\ expect' = NoExpect
    /\ UNCHANGED <<mu, currentlyPlaying, loop, playerCancel, playerRunning,
                   currentCancel, loopVars, ctxDone, itemDone, started>>
    /\ UNCHANGED restVars

\* slices.Insert as it would be if it were an append
InsertAtEnd(s, i, e) == s \o <<e>>

InsertAt(s, i, e) == SubSeq(s, 1, i) \o <<e>> \o SubSeq(s, i + 1, Len(s))

\* Insert as it would be if it refused the index one past the last element
InsertRejectsEnd(index, element) ==
    /\ mu = "free"
    /\ IF index < 0 \/ index >= Len(playlist)
       THEN /\ ret' = Ret("Insert", FALSE, 0)
            /\ UNCHANGED playlist
       ELSE /\ Len(playlist) < MaxLen
            /\ playlist' = InsertAt(playlist, index, element)
            /\ ret' = Ret("Insert", TRUE, 0)
    /\ expect' = NoExpect
    /\ UNCHANGED <<mu, currentlyPlaying, loop, playerCancel, playerRunning,
                   currentCancel, loopVars, ctxDone, itemDone, started>>
    /\ UNCHANGED restVars

Insert(index, element) ==
    /\ mu = "free"
    /\ IF index < 0 \/ index > Len(playlist)
       THEN /\ ret' = Ret("Insert", FALSE, 0)
            /\ UNCHANGED playlist
       ELSE /\ Len(playlist) < MaxLen
            /\ playlist' = InsertAt(playlist, index, element)
            /\ ret' = Ret("Insert", TRUE, 0)
    /\ expect' = IF index >= 0 /\ index <= Len(playlist) /\ index < currentlyPlaying
                 THEN BelowExpect(currentlyPlaying + 1, Len(playlist) + 1)
                 ELSE NoExpect
    /\ UNCHANGED <<mu, currentlyPlaying, loop, playerCancel, playerRunning,
                   currentCancel, loopVars, ctxDone, itemDone, started>>
    /\ UNCHANGED restVars

SetLoop(b) ==
    /\ mu = "free"
    /\ loop' = b
    /\ ret' = Ret("SetLoop", TRUE, 0)
    /\ expect' = NoExpect
    /\ UNCHANGED <<mu, playlist, currentlyPlaying, playerCancel, playerRunning,
                   currentCancel, loopVars, ctxDone, itemDone, started>>
    /\ UNCHANGED restVars

\* ------------------------------------------------------- Next / Previous
\* the early return of Server.Next with its bound off by one
NextFailsOffByOne == ~playerRunning \/ currentlyPlaying + 1 > Len(playlist)

\* the early return of Server.Next
NextFails == ~playerRunning \/ currentlyPlaying + 1 >= Len(playlist)

NextIndex ==
    IF loop THEN (currentlyPlaying + 1) % Len(playlist)
            ELSE currentlyPlaying + 1

\* the body of Server.Next under the lock, shared by callers
NextBody ==
    IF NextFails
    THEN UNCHANGED <<currentlyPlaying, itemDone>>
    ELSE /\ currentlyPlaying' = NextIndex
         /\ itemDone' = Cancel(currentCancel)

\* an explicit Next() from a request-handling goroutine
ServerNext ==
    /\ mu = "free"
    /\ NextBody
    /\ ret' = Ret("Next", ~NextFails, 0)
    /\ expect' = IF ~NextFails /\ (\E t \in Tasks : Streaming(t))
                    /\ currentlyPlaying + 1 < Len(playlist)
                 THEN [why |-> "next", idx |-> currentlyPlaying + 1]
                 ELSE NoExpect
    /\ UNCHANGED <<mu, playlist, loop, playerCancel, playerRunning,
                   currentCancel, loopVars, ctxDone, started>>
    /\ UNCHANGED restVars

\* the early return of Server.Previous without the check of playerRunning
PreviousFailsIgnoresRunning == currentlyPlaying - 1 < 0

\* the early return of Server.Previous
PreviousFails == ~playerRunning \/ currentlyPlaying - 1 < 0

Previous ==
    /\ mu = "free"
    /\ IF PreviousFails
       THEN /\ ret' = Ret("Previous", FALSE, 0)
            /\ expect' = NoExpect
            /\ UNCHANGED <<currentlyPlaying, itemDone>>
       ELSE IF loop /\ Len(playlist) = 0
       THEN \* integer divide by zero: the deferred Unlock runs, nothing was assigned
            /\ ret' = Panic("Previous")
            /\ expect' = NoExpect
            /\ UNCHANGED <<currentlyPlaying, itemDone>>
       ELSE /\ currentlyPlaying' =
                 IF loop
                 THEN (currentlyPlaying - 1 + Len(playlist)) % Len(playlist)
                 ELSE currentlyPlaying - 1
            /\ itemDone' = Cancel(currentCancel)
            /\ ret' = Ret("Previous", TRUE, 0)
            /\ expect' = IF \E t \in Tasks : Streaming(t)
                         THEN [why |-> "prev", idx |-> currentlyPlaying - 1]
                         ELSE NoExpect
    /\ UNCHANGED <<mu, playlist, loop, playerCancel, playerRunning,
                   currentCancel, loopVars, ctxDone, started>>
    /\ UNCHANGED restVars

\* ---------------------------------------------------------- Start / Stop
\* the goroutine slot `go s.playerLoop(ctx)` takes
FreeSlot(t) == pc[t] = "dead" /\ \A u \in Tasks : u < t => pc[u] # "dead"

\* StartPlayer as it would be without the check of playerRunning
StartPlayerNoGuard ==
    /\ mu = "free"
    /\ \E t \in Tasks :
            /\ FreeSlot(t)
            /\ playerCancel' = t
            /\ ctxDone' = [ctxDone EXCEPT ![t] = FALSE]
            /\ playerRunning' = TRUE
            /\ currentlyPlaying' = 0
            /\ pc' = [pc EXCEPT ![t] = "select"]
            /\ started' = TRUE
            /\ ret' = Ret("StartPlayer", TRUE, 0)
    /\ expect' = NoExpect
    /\ UNCHANGED <<mu, playlist, loop, currentCancel, item, itemIdx, err, itemDone>>
    /\ UNCHANGED restVars

\* StartPlayer as it would be without the reset of currentlyPlaying
StartPlayerKeepsIndex ==
    /\ mu = "free"
    /\ IF playerRunning
       THEN /\ ret' = Ret("StartPlayer", FALSE, 0)
            /\ UNCHANGED <<playerCancel, playerRunning, pc, ctxDone, started>>
       ELSE \E t \in Tasks :
            /\ FreeSlot(t)
            /\ playerCancel' = t
            /\ ctxDone' = [ctxDone EXCEPT ![t] = FALSE]
            /\ playerRunning' = TRUE
            /\ pc' = [pc EXCEPT ![t] = "select"]
            /\ started' = TRUE
            /\ ret' = Ret("StartPlayer", TRUE, 0)
    /\ expect' = NoExpect
    /\ UNCHANGED <<mu, playlist, currentlyPlaying, loop, currentCancel, item,
                   itemIdx, err, itemDone>>
    /\ UNCHANGED restVars

StartPlayer ==
    /\ mu = "free"
    /\ IF playerRunning
       THEN /\ ret' = Ret("StartPlayer", FALSE, 0)
            /\ UNCHANGED <<playerCancel, playerRunning, currentlyPlaying,
                           pc, ctxDone, started>>
       ELSE \E t \in Tasks :
            /\ FreeSlot(t)
            /\ playerCancel' = t
            /\ ctxDone' = [ctxDone EXCEPT ![t] = FALSE]
            /\ playerRunning' = TRUE
            /\ currentlyPlaying' = 0
            /\ pc' = [pc EXCEPT ![t] = "select"]
            /\ started' = TRUE
            /\ ret' = Ret("StartPlayer", TRUE, 0)
    /\ expect' = NoExpect
    /\ UNCHANGED <<mu, playlist, loop, currentCancel, item, itemIdx, err, itemDone>>
    /\ UNCHANGED restVars

\* history: this StopPlayer() succeeds while the loop holds an element it has
\* read and has not yet recorded currentCancel for
StopBeforeRecord ==
    /\ playerRunning /\ playerCancel # Nil /\ currentCancel = Nil
    /\ \E t \in Tasks : pc[t] = "setcancel" /\ playerCancel = t

\* StopPlayer as it would be if it marked the player stopped itself instead
\* of leaving that to the loop's deferred cleanup
StopPlayerClearsRunning ==
    /\ mu = "free"
    /\ IF ~playerRunning \/ playerCancel = Nil
       THEN /\ ret' = Ret("StopPlayer", FALSE, 0)
            /\ UNCHANGED <<itemDone, ctxDone, playerRunning, playerCancel>>
       ELSE /\ itemDone' = Cancel(currentCancel)
            /\ ctxDone' = [ctxDone EXCEPT ![playerCancel] = TRUE]
            /\ playerRunning' = FALSE
            /\ playerCancel' = Nil
            /\ ret' = Ret("StopPlayer", TRUE, 0)
    /\ expect' = IF StopBeforeRecord THEN [why |-> "stop", idx |-> 0]
                 ELSE NoExpect
    /\ UNCHANGED <<mu, playlist, currentlyPlaying, loop, currentCancel,
                   loopVars, started>>
    /\ UNCHANGED restVars

StopPlayer ==
    /\ mu = "free"
    /\ IF ~playerRunning \/ playerCancel = Nil
       THEN /\ ret' = Ret("StopPlayer", FALSE, 0)
            /\ UNCHANGED <<itemDone, ctxDone>>
       ELSE /\ itemDone' = Cancel(currentCancel)
            /\ ctxDone' = [ctxDone EXCEPT ![playerCancel] = TRUE]
            /\ ret' = Ret("StopPlayer", TRUE, 0)
    /\ expect' = IF StopBeforeRecord THEN [why |-> "stop", idx |-> 0]
                 ELSE NoExpect
    /\ UNCHANGED <<mu, playlist, currentlyPlaying, loop, playerCancel,
                   playerRunning, currentCancel, loopVars, started>>
    /\ UNCHANGED restVars

\* ----------------------------------------------------------------- Status
\* the PlayerStatus value Status() builds from the fields (duration d)
PlayerStatus(d) ==
    [Running |-> playerRunning,
     Playing |-> playerRunning /\ currentCancel # Nil,
     CurrentIdx |-> currentlyPlaying,
     Loop |-> loop,
     Length |-> Len(playlist),
     ProgrammedSeconds |-> d]

\* Status() takes s.mu and calls s.GetDuration(i) for every element;
\* GetDuration starts with s.mu.Lock() and sync.Mutex is not reentrant, so
\* with a non-empty playlist the caller waits for the lock it holds.
Status ==
    /\ mu = "free"
    /\ IF Len(playlist) = 0
       THEN /\ ret' = Ret("Status", TRUE, 0)
            /\ UNCHANGED mu
       ELSE \* blocked in GetDuration's s.mu.Lock(): nothing is returned
            /\ mu' = "Status"
            /\ UNCHANGED ret
    /\ UNCHANGED <<playlist, currentlyPlaying, loop, playerCancel, playerRunning,
                   currentCancel, loopVars, ctxDone, itemDone, started, expect>>
    /\ UNCHANGED restVars

\* ------------------------------------------------------------- playerLoop
\* select { case <-playerLoopCtx.Done(): return; default: ... }
LoopSelect(t) ==
    /\ pc[t] = "select"
    /\ pc' = [pc EXCEPT ![t] = IF ctxDone[t] THEN "defer" ELSE "current"]
    /\ UNCHANGED <<mu, playlist, currentlyPlaying, loop, playerCancel,
                   playerRunning, currentCancel, item, itemIdx, err, ctxDone, itemDone,
                   ret, started, expect>>
    /\ UNCHANGED restVars

\* Server.Current: ok iff 0 <= currentlyPlaying < len(playlist)
CurrentOk == currentlyPlaying >= 0 /\ currentlyPlaying < Len(playlist)

\* item, ok := s.Current()
LoopCurrent(t) ==
    /\ pc[t] = "current"
    /\ mu = "free"
    /\ IF CurrentOk
       THEN /\ item' = [item EXCEPT ![t] = At(currentlyPlaying)]
            /\ itemIdx' = [itemIdx EXCEPT ![t] = currentlyPlaying]
            /\ pc' = [pc EXCEPT ![t] = "setcancel"]
       ELSE /\ pc' = [pc EXCEPT ![t] = "chkrun"]
            /\ UNCHANGED <<item, itemIdx>>
    /\ expect' = NoExpect
    /\ UNCHANGED <<mu, playlist, currentlyPlaying, loop, playerCancel,
                   playerRunning, currentCancel, err, ctxDone, itemDone,
                   ret, started>>
    /\ UNCHANGED restVars

\* if !ok { lock; if !s.playerRunning { return }; unlock
LoopCheckRunning(t) ==
    /\ pc[t] = "chkrun"
    /\ mu = "free"
    /\ pc' = [pc EXCEPT ![t] = IF playerRunning THEN "sleep" ELSE "defer"]
    /\ UNCHANGED <<mu, playlist, currentlyPlaying, loop, playerCancel,
                   playerRunning, currentCancel, item, itemIdx, err, ctxDone, itemDone,
                   ret, started, expect>>
    /\ UNCHANGED restVars

\* time.Sleep(250ms); continue
LoopSleep(t) ==
    /\ pc[t] = "sleep"
    /\ pc' = [pc EXCEPT ![t] = "select"]
    /\ UNCHANGED <<mu, playlist, currentlyPlaying, loop, playerCancel,
                   playerRunning, currentCancel, item, itemIdx, err, ctxDone, itemDone,
                   ret, started, expect>>
    /\ UNCHANGED restVars

\* itemCtx, itemCancel := WithCancel(playerLoopCtx); s.mu.Lock();
\* s.currentCancel = itemCancel
LoopSetCancel(t) ==
    /\ pc[t] = "setcancel"
    /\ mu = "free"
    /\ mu' = "playerLoop"
    /\ itemDone' = [itemDone EXCEPT ![t] = FALSE]
    /\ currentCancel' = t
    /\ pc' = [pc EXCEPT ![t] = "unlock"]
    /\ UNCHANGED <<playlist, currentlyPlaying, loop, playerCancel,
                   playerRunning, item, itemIdx, err, ctxDone, ret, started,
                   expect>>
    /\ UNCHANGED restVars

\* LoopUnlock as it would be if the Unlock were missing before the call
LoopUnlockKeepsLock(t) ==
    /\ pc[t] = "unlock"
    /\ pc' = [pc EXCEPT ![t] = "stream"]
    /\ UNCHANGED <<mu, playlist, currentlyPlaying, loop, playerCancel,
                   playerRunning, currentCancel, item, itemIdx, err, ctxDone,
                   itemDone, ret, started, expect>>
    /\ UNCHANGED restVars

\* s.mu.Unlock() before the blocking call to StreamToRTMP
LoopUnlock(t) ==
    /\ pc[t] = "unlock"
    /\ mu' = "free"
    /\ pc' = [pc EXCEPT ![t] = "stream"]
    /\ UNCHANGED <<playlist, currentlyPlaying, loop, playerCancel,
                   playerRunning, currentCancel, item, itemIdx, err, ctxDone,
                   itemDone, ret, started, expect>>
    /\ UNCHANGED restVars

\* the cases of StreamToRTMP's type switch that build a command
KnownKinds == {"video", "idle"}

\* StreamToRTMP up to cmd.Run(): the type switch returns an error for any
\* other element type; exec refuses to start under a done context
StreamStart(t) ==
    /\ pc[t] = "stream"
    /\ IF item[t].kind \notin KnownKinds
       THEN /\ err' = [err EXCEPT ![t] = "unknown"]
            /\ pc' = [pc EXCEPT ![t] = "next"]
       ELSE IF Done(t)
       THEN /\ err' = [err EXCEPT ![t] = "canceled"]
            /\ pc' = [pc EXCEPT ![t] = "next"]
       ELSE /\ pc' = [pc EXCEPT ![t] = "running"]
            /\ UNCHANGED err
    /\ UNCHANGED <<mu, playlist, currentlyPlaying, loop, playerCancel,
                   playerRunning, currentCancel, item, itemIdx, ctxDone, itemDone,
                   ret, started, expect>>
    /\ UNCHANGED restVars

\* StreamToRTMP as it would be if it wrapped every run error
StreamResultWrapsAll(t, runErr) == IF ~runErr THEN "nil" ELSE "error"

\* what StreamToRTMP returns for a process that exited with/without a run error
StreamResult(t, runErr) ==
    IF ~runErr THEN "nil"
    ELSE IF Done(t) THEN "canceled" ELSE "error"

\* cmd.Run() returns: the process ended by itself (runErr or not)
StreamEnd(t, runErr) ==
    /\ pc[t] = "running"
    /\ ~Done(t)
    /\ err' = [err EXCEPT ![t] = StreamResult(t, runErr)]
    /\ pc' = [pc EXCEPT ![t] = "next"]
    /\ expect' = IF ~runErr /\ expect.why = "below" /\ currentCancel = t
                 THEN expect
                 ELSE IF ~runErr /\ loop /\ playerRunning /\ Streaming(t)
                    /\ currentlyPlaying = Len(playlist) - 1
                 THEN [why |-> "wrap", idx |-> 0]
                 ELSE IF runErr /\ loop /\ playerRunning /\ Streaming(t)
                         /\ Len(playlist) >= 2
                 THEN [why |-> "fail", idx |-> currentlyPlaying]
                 ELSE NoExpect
    /\ UNCHANGED <<mu, playlist, currentlyPlaying, loop, playerCancel,
                   playerRunning, currentCancel, item, itemIdx, ctxDone, itemDone,
                   ret, started>>
    /\ UNCHANGED restVars

\* cmd.Run() returns after the context was cancelled: the process was killed
\* (run error), or had just finished by itself
StreamKilled(t, runErr) ==
    /\ pc[t] = "running"
    /\ Done(t)
    /\ err' = [err EXCEPT ![t] = StreamResult(t, runErr)]
    /\ pc' = [pc EXCEPT ![t] = "next"]
    /\ UNCHANGED <<mu, playlist, currentlyPlaying, loop, playerCancel,
                   playerRunning, currentCancel, item, itemIdx, ctxDone, itemDone,
                   ret, started, expect>>
    /\ UNCHANGED restVars

\* LoopNext as it would be if the loop returned from there once its run
\* context is done, before it clears currentCancel
LoopNextExitsWhenDone(t) ==
    /\ pc[t] = "next"
    /\ mu = "free"
    /\ NextBody
    /\ pc' = [pc EXCEPT ![t] = IF ctxDone[t] THEN "defer" ELSE "clear"]
    /\ UNCHANGED <<mu, playlist, loop, playerCancel, playerRunning,
                   currentCancel, item, itemIdx, err, ctxDone, ret, started,
                   expect>>
    /\ UNCHANGED restVars

\* s.Next() called by the loop after StreamToRTMP returned
LoopNext(t) ==
    /\ pc[t] = "next"
    /\ mu = "free"
    /\ NextBody
    /\ pc' = [pc EXCEPT ![t] = "clear"]
    /\ UNCHANGED <<mu, playlist, loop, playerCancel, playerRunning,
                   currentCancel, item, itemIdx, err, ctxDone, ret, started,
                   expect>>
    /\ UNCHANGED restVars

\* LoopClear as it would be if it left currentCancel set
LoopClearKeepsCancel(t) ==
    /\ pc[t] = "clear"
    /\ mu = "free"
    /\ pc' = [pc EXCEPT ![t] = "select"]
    /\ item' = [item EXCEPT ![t] = NoElement]
    /\ itemIdx' = [itemIdx EXCEPT ![t] = 0]
    /\ err' = [err EXCEPT ![t] = "nil"]
    /\ itemDone' = [itemDone EXCEPT ![t] = FALSE]
    /\ UNCHANGED <<mu, playlist, currentlyPlaying, loop, playerCancel,
                   playerRunning, currentCancel, ctxDone, ret, started, expect>>
    /\ UNCHANGED restVars

\* LoopClear as it would be if a cancelled element ended the loop
LoopClearEndsOnCancel(t) ==
    /\ pc[t] = "clear"
    /\ mu = "free"
    /\ currentCancel' = Nil
    /\ pc' = [pc EXCEPT ![t] = IF err[t] = "canceled" THEN "defer" ELSE "select"]
    /\ item' = [item EXCEPT ![t] = NoElement]
    /\ itemIdx' = [itemIdx EXCEPT ![t] = 0]
    /\ err' = [err EXCEPT ![t] = "nil"]
    /\ itemDone' = [itemDone EXCEPT ![t] = FALSE]
    /\ UNCHANGED <<mu, playlist, currentlyPlaying, loop, playerCancel,
                   playerRunning, ctxDone, ret, started, expect>>
    /\ UNCHANGED restVars

\* s.currentCancel = nil; the iteration's locals go out of scope
LoopClear(t) ==
    /\ pc[t] = "clear"
    /\ mu = "free"
    /\ currentCancel' = Nil
    /\ pc' = [pc EXCEPT ![t] = "select"]
    /\ item' = [item EXCEPT ![t] = NoElement]
    /\ itemIdx' = [itemIdx EXCEPT ![t] = 0]
    /\ err' = [err EXCEPT ![t] = "nil"]
    /\ itemDone' = [itemDone EXCEPT ![t] = FALSE]
    /\ UNCHANGED <<mu, playlist, currentlyPlaying, loop, playerCancel,
                   playerRunning, ctxDone, ret, started, expect>>
    /\ UNCHANGED restVars

\* LoopDefer as it would be if it left playerCancel set
LoopDeferKeepsCancel(t) ==
    /\ pc[t] = "defer"
    /\ mu = "free"
    /\ playerRunning' = FALSE
    /\ pc' = [pc EXCEPT ![t] = "dead"]
    /\ UNCHANGED <<mu, playlist, currentlyPlaying, loop, playerCancel,
                   currentCancel, item, itemIdx, err, ctxDone, itemDone, ret,
                   started, expect>>
    /\ UNCHANGED restVars

\* the deferred cleanup: playerRunning = false; playerCancel = nil
LoopDefer(t) ==
    /\ pc[t] = "defer"
    /\ mu = "free"
    /\ playerRunning' = FALSE
    /\ playerCancel' = Nil
    /\ pc' = [pc EXCEPT ![t] = "dead"]
    /\ UNCHANGED <<mu, playlist, currentlyPlaying, loop, currentCancel, item, itemIdx,
                   err, ctxDone, itemDone, ret, started, expect>>
    /\ UNCHANGED restVars

\* the steps of playerLoop that happen without waiting for the encoder
LoopStep(t) ==
    \/ LoopSelect(t)
    \/ LoopCurrent(t)
    \/ LoopCheckRunning(t)
    \/ LoopSleep(t)
    \/ LoopSetCancel(t)
    \/ LoopUnlock(t)
    \/ StreamStart(t)
    \/ \E runErr \in BOOLEAN : StreamKilled(t, runErr)
    \/ LoopNext(t)
    \/ LoopClear(t)
    \/ LoopDefer(t)

\* ------------------------------------------------------------------- Next
Next ==
    \/ \E p \in Paths : ServerAppend(p)
    \/ \E i \in -1..MaxLen : Remove(i)
    \/ Clear
    \/ \E i \in -1..(MaxLen + 1), e \in Elements : Insert(i, e)
    \/ SetLoop(TRUE)
    \/ SetLoop(FALSE)
    \/ ServerNext
    \/ Previous
    \/ StartPlayer
    \/ StopPlayer
    \/ Status
    \/ \E t \in Tasks : LoopStep(t)
    \/ \E t \in Tasks, runErr \in BOOLEAN : StreamEnd(t, runErr)

Spec == Init /\ [][Next]_vars

\* the scheduler runs every goroutine that can take a step, and the encoder
\* process ends once its context is cancelled; an element that is not
\* cancelled may stream for ever
FairSpec == Spec /\ \A t \in Tasks : WF_vars(LoopStep(t))

\* ------------------------------------------------- the playlist by itself
\* The playlist operations as a caller of the Server sees them, with
\* elements that can be told apart; the player is not started.
ListPaths == {"a", "b"}

ListElements == {VideoElement(p) : p \in ListPaths} \cup {IdleElement(1)}

\* List as it would be if it returned s.playlist itself
ListReturnsPlaylist ==
    /\ mu = "free"
    /\ listed' = [shared |-> TRUE, seq |-> playlist]
    /\ ret' = Ret("List", TRUE, Len(playlist))
    /\ expect' = NoExpect
    /\ UNCHANGED <<mu, playlist, currentlyPlaying, loop, playerCancel,
                   playerRunning, currentCancel, loopVars, ctxDone, itemDone,
                   started, call, probe, queueVars>>

\* out := make(..., len(s.playlist)); copy(out, s.playlist); return out
List ==
    /\ mu = "free"
    /\ listed' = [shared |-> FALSE, seq |-> playlist]
    /\ ret' = Ret("List", TRUE, Len(playlist))
    /\ expect' = NoExpect
    /\ UNCHANGED <<mu, playlist, currentlyPlaying, loop, playerCancel,
                   playerRunning, currentCancel, loopVars, ctxDone, itemDone,
                   started, call, probe, queueVars>>

\* the sequence the caller of List() reads through the slice it was given:
\* its own array, or the playlist's when the two share one
Listed == IF listed.shared THEN playlist ELSE listed.seq

\* the caller assigns out[i] = e in the slice List() gave it (0-based i)
CallerWrites(i, e) ==
    /\ i >= 0 /\ i < Len(Listed)
    /\ IF listed.shared
       THEN /\ playlist' = [playlist EXCEPT ![i + 1] = e]
            /\ UNCHANGED listed
       ELSE /\ listed' = [listed EXCEPT !.seq[i + 1] = e]
            /\ UNCHANGED playlist
    /\ UNCHANGED <<mu, currentlyPlaying, loop, playerCancel, playerRunning,
                   currentCancel, loopVars, ctxDone, itemDone, ret, started,
                   expect, call, probe, queueVars>>

Length ==
    /\ mu = "free"
    /\ ret' = Ret("Length", TRUE, Len(playlist))
    /\ expect' = NoExpect
    /\ UNCHANGED <<mu, playlist, currentlyPlaying, loop, playerCancel,
                   playerRunning, currentCancel, loopVars, ctxDone, itemDone,
                   started, restVars>>

PlaylistNext ==
    \/ \E p \in ListPaths : ServerAppend(p)
    \/ \E i \in -1..MaxLen : Remove(i)
    \/ Clear
    \/ \E i \in -1..(MaxLen + 1), e \in ListElements : Insert(i, e)
    \/ Length
    \/ List
    \/ \E i \in 0..(MaxLen - 1), e \in ListElements : CallerWrites(i, e)

PlaylistSpec == Init /\ [][PlaylistNext]_vars

\* ------------------------------------------------ the supervisor by itself
\* One call of StreamToRTMP for every kind of element, with the operations
\* that cancel its scope while it runs.
\* a PlaylistElement of a type StreamToRTMP has no case for
OtherElement == [kind |-> "other", path |-> "", secs |-> 0]

SupervisedElements == ListElements \cup {IdleElement(2), OtherElement}

\* if err != nil && err != context.Canceled { log.Printf("streaming error") }
LoopLogsError(t) == err[t] # "nil" /\ err[t] # "canceled"

\* the loop of task 1 has recorded the element handle and is about to call
\* StreamToRTMP(itemCtx, item, rtmpURL) for the first of two elements
SupervisorInit ==
    /\ mu = "free"
    /\ playlist \in {<<e1, e2>> : e1 \in SupervisedElements, e2 \in ListElements}
    /\ currentlyPlaying = 0
    /\ loop \in BOOLEAN
    /\ playerCancel = 1
    /\ playerRunning = TRUE
    /\ currentCancel = 1
    /\ pc = [t \in Tasks |-> IF t = 1 THEN "stream" ELSE "dead"]
    /\ item = [t \in Tasks |-> IF t = 1 THEN playlist[1] ELSE NoElement]
    /\ itemIdx = [t \in Tasks |-> 0]
    /\ err = [t \in Tasks |-> "nil"]
    /\ ctxDone = [t \in Tasks |-> FALSE]
    /\ itemDone = [t \in Tasks |-> FALSE]
    /\ ret = Ret("StartPlayer", TRUE, 0)
    /\ started = TRUE
    /\ expect = NoExpect
    /\ listed = NoList
    /\ call = NoCall
    /\ probe = NoProbe
    /\ NewQueueServer

SupervisorNext ==
    \/ ServerNext
    \/ StopPlayer
    \/ \E t \in Tasks : StreamStart(t)
    \/ \E t \in Tasks, runErr \in BOOLEAN : StreamEnd(t, runErr)
    \/ \E t \in Tasks, runErr \in BOOLEAN : StreamKilled(t, runErr)

SupervisorSpec == SupervisorInit /\ [][SupervisorNext]_vars

\* ------------------------------------------------------ Go strings, numbers
\* A Go string is a sequence of atoms: single bytes ("x", ":"), or a whole
\* literal taken from a format string or an argument list ("-vf", "scale=").
\* An input text is made of single bytes only, so len(text) is Len(text).
\* the elements of a sequence
Range(f) == {f[x] : x \in DOMAIN f}

Digits == <<"0", "1", "2", "3", "4", "5", "6", "7", "8", "9">>

RECURSIVE ItoaNat(_)
ItoaNat(n) ==
    IF n < 10 THEN <<Digits[n + 1]>>
    ELSE ItoaNat(n \div 10) \o <<Digits[(n % 10) + 1]>>

\* strconv.Itoa, and fmt's %d and %.0f of a whole number
Itoa(n) == IF n < 0 THEN <<"-">> \o ItoaNat(0 - n) ELSE ItoaNat(n)

DigitVal(c) == CHOOSE d \in 0..9 : Digits[d + 1] = c

RECURSIVE AtoiNat(_)
AtoiNat(s) ==
    IF Len(s) = 1 THEN DigitVal(s[1])
    ELSE 10 * AtoiNat(SubSeq(s, 1, Len(s) - 1)) + DigitVal(s[Len(s)])

\* strconv.Atoi: an optional sign, then one digit or more
Atoi(s) ==
    LET signed == Len(s) > 0 /\ s[1] \in {"-", "+"}
        body == IF signed THEN Tail(s) ELSE s
    IN  IF Len(body) = 0 \/ \E i \in 1..Len(body) : body[i] \notin Range(Digits)
        THEN [ok |-> FALSE, n |-> 0]
        ELSE [ok |-> TRUE,
              n |-> IF signed /\ s[1] = "-" THEN 0 - AtoiNat(body)
                    ELSE AtoiNat(body)]

\* strings.ToLower over the bytes a bitrate string is written with
ToLower(s) == [i \in 1..Len(s) |-> IF s[i] = "K" THEN "k" ELSE s[i]]

RECURSIVE TrimSpace(_)
TrimSpace(s) ==
    IF Len(s) = 0 THEN s
    ELSE IF s[1] = " " THEN TrimSpace(Tail(s))
    ELSE IF s[Len(s)] = " " THEN TrimSpace(SubSeq(s, 1, Len(s) - 1))
    ELSE s

TrimSuffix(s, c) ==
    IF Len(s) > 0 /\ s[Len(s)] = c THEN SubSeq(s, 1, Len(s) - 1) ELSE s

\* atoiK("8000k") = 8000; 0 when the rest is not a number
atoiK(s) ==
    LET r == Atoi(TrimSuffix(ToLower(TrimSpace(s)), "k"))
    IN  IF r.ok THEN r.n ELSE 0

\* strings.Repeat(c, n)
Repeat(c, n) == [i \in 1..n |-> c]

\* the string literal "<n>k" of the quality tables
Kbit(n) == Itoa(n) \o <<"k">>

\* -------------------------------------------------------- quality profiles
Q(w, h, f, vb, ab) ==
    [Width |-> w, Height |-> h, FPS |-> f, VBitrate |-> vb, ABitrate |-> ab]

Qualities169 ==
    <<Q(1920, 1080, 60, Kbit(10000), Kbit(128)),
      Q(1920, 1080, 30, Kbit(8000), Kbit(128)),
      Q(1280, 720, 60, Kbit(6000), Kbit(128)),
      Q(1280, 720, 30, Kbit(3500), Kbit(128)),
      Q(854, 480, 30, Kbit(1200), Kbit(96)),
      Q(640, 360, 30, Kbit(700), Kbit(64))>>

Qualities43 ==
    <<Q(960, 720, 30, Kbit(2000), Kbit(128)),
      Q(640, 480, 23, Kbit(1000), Kbit(96)),
      Q(480, 360, 15, Kbit(600), Kbit(64))>>

\* the clamp of FfmpegCommand as it would be without its lower bound
ClampQualityNoLower(quality, n) == IF quality >= n THEN n - 1 ELSE quality

\* if quality < 0 { quality = 0 }; if quality >= len(t) { quality = len(t)-1 }
ClampQuality(quality, n) ==
    LET q0 == IF quality < 0 THEN 0 ELSE quality
    IN  IF q0 >= n THEN n - 1 ELSE q0

QualityTable(ciccione) == IF ciccione THEN Qualities43 ELSE Qualities169

\* a builder call that ended in a run-time panic: "index" (index out of
\* range) or "slice" (slice bounds out of range)
BuilderPanic(why) == [panic |-> why, args |-> <<>>]

BuilderResult(args) == [panic |-> "none", args |-> args]

\* ------------------------------------------------------------ text banner
PrefixLen == 10     \* description[10:]

strPadding == 150

\* description after the slice and the padding of getTextFilter (for a
\* description of at least PrefixLen bytes)
BannerLabel(description) ==
    LET d == SubSeq(description, PrefixLen + 1, Len(description))
    IN  IF Len(d) < strPadding THEN d \o Repeat(" ", strPadding - Len(d))
        ELSE d

\* getTextFilter; description[10:] panics on a shorter description
getTextFilter(description) ==
    IF Len(description) < PrefixLen THEN [panic |-> TRUE, text |-> <<>>]
    ELSE [panic |-> FALSE,
          text |-> <<"drawtext=text='">> \o BannerLabel(description)
                   \o <<"':fontsize=24:fontcolor=white:", "x=w-(mod(t\\,">>
                   \o Itoa(25) \o <<")*w*", "1.8", "/">> \o Itoa(10)
                   \o <<"):y=h-50:", "enable='lt(mod(t\\,">> \o Itoa(25)
                   \o <<"),">> \o Itoa(10) \o <<")'">>]

\* --------------------------------------------------------- FfmpegCommand
\* want1080p60 as it would be with the frame rate compared by >=
Want1080p60AtLeast30(q) == q.Width >= 1920 /\ q.FPS >= 30

Want1080p60(q) == q.Width >= 1920 /\ q.FPS > 30

\* usingRaspberryPi as it would be if it were read from the clock
usingRaspberryPiOddSeconds == call.now % 2 = 1

usingRaspberryPi == TRUE

\* extra of the hardware branch as it would be with the preset of the
\* software branch copied into it
HardwareExtraWithPreset(q) ==
    <<<<"-preset">>, <<"veryfast">>,
      <<"-g">>, Itoa(q.FPS * 2),
      <<"-maxrate">>, q.VBitrate,
      <<"-bufsize">>, Itoa(2 * atoiK(q.VBitrate)) \o <<"k">>>>

\* extra of the branch `else` (h264_v4l2m2m)
HardwareExtra(q) ==
    <<<<"-g">>, Itoa(q.FPS * 2),
      <<"-maxrate">>, q.VBitrate,
      <<"-bufsize">>, Itoa(2 * atoiK(q.VBitrate)) \o <<"k">>>>

\* extra of the branch `if want1080p60 || !usingRaspberryPi` (libx264)
SoftwareExtra(q) ==
    <<<<"-preset">>, <<"veryfast">>,
      <<"-tune">>, <<"zerolatency">>,
      <<"-profile:v">>, <<"high">>,
      <<"-level:v">>, <<"4.2">>,
      <<"-g">>, Itoa(q.FPS * 2),
      <<"-keyint_min">>, Itoa(q.FPS * 2),
      <<"-sc_threshold">>, <<"0">>,
      <<"-maxrate">>, q.VBitrate,
      <<"-bufsize">>, Itoa(2 * atoiK(q.VBitrate)) \o <<"k">>,
      <<"-threads">>, <<"0">>>>

FfmpegCommand(videoPath, rtmpURL, ciccione, quality, textBanner) ==
    LET table == QualityTable(ciccione)
        idx == ClampQuality(quality, Len(table))
    IN  IF idx < 0 \/ idx >= Len(table) THEN BuilderPanic("index")
        ELSE
        LET q == table[idx + 1]
            scale == <<"scale=">> \o Itoa(q.Width) \o <<":">> \o Itoa(q.Height)
                     \o <<",fps=">> \o Itoa(q.FPS) \o <<",format=yuv420p">>
            banner == getTextFilter(videoPath)
            vFilter == IF textBanner THEN scale \o <<",">> \o banner.text
                       ELSE scale
            software == Want1080p60(q) \/ ~usingRaspberryPi
            encoder == IF software THEN "libx264" ELSE "h264_v4l2m2m"
            extra == IF software THEN SoftwareExtra(q) ELSE HardwareExtra(q)
        IN  IF textBanner /\ banner.panic THEN BuilderPanic("slice")
            ELSE BuilderResult(
                   <<<<"-re">>, <<"-i">>, videoPath, <<"-vf">>, vFilter,
                     <<"-pix_fmt">>, <<"yuv420p">>, <<"-c:v">>, <<encoder>>>>
                   \o extra
                   \o <<<<"-b:v">>, q.VBitrate, <<"-c:a">>, <<"aac">>,
                        <<"-b:a">>, q.ABitrate, <<"-ar">>, <<"48000">>,
                        <<"-ac">>, <<"2">>, <<"-f">>, <<"flv">>, rtmpURL>>)

\* ------------------------------------------------------ escapeFFmpegText
\* the old/new pairs given to strings.NewReplacer
ReplacerPairs ==
    <<<<":", <<"\\", ":">>>>,
      <<"'", <<"\\", "'">>>>,
      <<"[", <<"\\", "[">>>>,
      <<"]", <<"\\", "]">>>>,
      <<",", <<"\\", ",">>>>,
      <<"\\", <<"\\", "\\">>>>>>

\* what the replacer writes for one byte of its input
ReplaceByte(c) ==
    IF \E i \in 1..Len(ReplacerPairs) : ReplacerPairs[i][1] = c
    THEN ReplacerPairs[CHOOSE i \in 1..Len(ReplacerPairs) :
                          /\ ReplacerPairs[i][1] = c
                          /\ \A j \in 1..(i - 1) : ReplacerPairs[j][1] # c][2]
    ELSE <<c>>

RECURSIVE Replace(_)
\* Replacer.Replace: one pass over the input, every byte replaced by itself;
\* the output is the outputs of the two halves of the input, in order
Replace(text) ==
    IF Len(text) = 0 THEN <<>>
    ELSE IF Len(text) = 1 THEN ReplaceByte(text[1])
    ELSE Replace(SubSeq(text, 1, Len(text) \div 2))
         \o Replace(SubSeq(text, Len(text) \div 2 + 1, Len(text)))

\* escapeFFmpegText as it would be if the result were escaped once more
escapeFFmpegTextTwice(text) == Replace(Replace(text))

escapeFFmpegText(text) == Replace(text)

\* ------------------------------------------------ FfmpegIdleStreamCommand
StaticMax == 80     \* if descLen <= 80

\* the test `descLen <= 80` as it would be with <
IsShortBelow(descLen) == descLen < StaticMax

IsShort(descLen) == descLen <= StaticMax

\* descFilter of FfmpegIdleStreamCommand
DescFilter(description) ==
    IF IsShort(Len(description))
    THEN <<"drawtext=text='">> \o escapeFFmpegText(description)
         \o <<"':fontsize=22:fontcolor=#cccccc:", "x=(w-text_w)/2:y=h/2+60:",
              "box=1:boxcolor=black@0.4:boxborderw=5">>
    ELSE <<"drawtext=text='">> \o escapeFFmpegText(description)
         \o <<"':fontsize=22:fontcolor=#cccccc:", "x=w-mod(t*80\\,w+tw):y=h/2+60:",
              "box=1:boxcolor=black@0.4:boxborderw=5">>

\* now is time.Now().Unix(), read by the function itself
FfmpegIdleStreamCommand(rtmpURL, durationSeconds, nextMovie, description, startTimeUnix, now) ==
    LET secondsUntilStart == startTimeUnix - now
        videoFilter ==
            <<"color=size=1280x720:rate=15:color=#0f0f1e,",
              "drawtext=text=' [||] INTERMISSION':fontsize=42:fontcolor=#ff6b6b:",
              "x=(w-text_w)/2:y=80:",
              "box=1:boxcolor=black@0.6:boxborderw=10:",
              "alpha='0.85+0.15*sin(t)',",
              "drawtext=text='COMING UP NEXT':fontsize=28:fontcolor=#00d4ff:",
              "x=(w-text_w)/2:y=h/2-120,",
              "drawtext=text='">>
            \o escapeFFmpegText(nextMovie)
            \o <<"':fontsize=46:fontcolor=white:",
                 "x=(w-text_w)/2:y=h/2-70:",
                 "box=1:boxcolor=black@0.5:boxborderw=8,">>
            \o DescFilter(description)
            \o <<",", "drawtext=text='Starting in\\: %{eif\\:">>
            \o Itoa(secondsUntilStart)
            \o <<"-t\\:d} seconds':fontsize=36:fontcolor=#4ecdc4:",
                 "x=(w-text_w)/2:y=h-120:",
                 "box=1:boxcolor=black@0.5:boxborderw=6">>
    IN  BuilderResult(
          <<<<"-f">>, <<"lavfi">>, <<"-t">>, Itoa(durationSeconds),
            <<"-i">>, videoFilter,
            <<"-f">>, <<"lavfi">>, <<"-t">>, Itoa(durationSeconds),
            <<"-i">>, <<"anullsrc=channel_layout=stereo:sample_rate=44100">>,
            <<"-c:v">>, <<"h264_v4l2m2m">>, <<"-b:v">>, <<"500k">>,
            <<"-c:a">>, <<"aac">>, <<"-b:a">>, <<"64k">>,
            <<"-f">>, <<"flv">>, rtmpURL>>)

\* ------------------------------------------- the command builder by itself
\* One application of FfmpegCommand or FfmpegIdleStreamCommand to inputs
\* drawn from the sets below.
MaxText == 2     \* longest text that is enumerated byte by byte

\* the bytes escapeFFmpegText has a pair for
Special == {":", "'", "[", "]", ",", "\\"}

Alphabet == Special \cup {"x"}

ShortTexts == UNION {[1..n -> Alphabet] : n \in 0..MaxText}

\* texts of one repeated byte whose length is around n
LongTexts(n) == {Repeat(c, m) : c \in {"x", "'"}, m \in (n - 1)..(n + 2)}

\* "/media/n. ", the prefix getTextFilter removes
MediaPrefix == <<"/", "m", "e", "d", "i", "a", "/", "1", ".", " ">>

VideoPaths ==
    {MediaPrefix \o t : t \in ShortTexts \cup LongTexts(strPadding)}
        \cup {<<"a">>, SubSeq(MediaPrefix, 1, PrefixLen - 1)}

RtmpURL == <<"rtmp://iptvsim-nginx:1935/live/stream">>

NoOut == BuilderResult(<<>>)

\* calls of FfmpegCommand not yet made, at second 5 of the clock
VideoCalls(paths, banners) ==
    [fn : {"FfmpegCommand"}, videoPath : paths, ciccione : BOOLEAN,
     quality : -2..(Len(Qualities169) + 1), textBanner : banners,
     now : {5}, done : {FALSE}, out : {NoOut},
     repeated : {FALSE}, again : {NoOut}]

FfmpegCommandCalls == VideoCalls(VideoPaths, BOOLEAN)

FfmpegIdleStreamCommandCalls ==
    [fn : {"FfmpegIdleStreamCommand"}, durationSeconds : {0, 30},
     nextMovie : {<<"d", "e", "s", "c">>, <<"x", "'", ":">>},
     description : ShortTexts \cup LongTexts(StaticMax),
     startTimeUnix : {0, 9}, now : {5},
     done : {FALSE}, out : {NoOut}]

BuilderInit ==
    /\ NewServer
    /\ listed = NoList
    /\ probe = NoProbe
    /\ NewQueueServer
    /\ call \in FfmpegCommandCalls \cup FfmpegIdleStreamCommandCalls

serverVars == <<mu, playlist, currentlyPlaying, loop, playerCancel,
                playerRunning, currentCancel, pc, item, itemIdx, err, ctxDone,
                itemDone, ret, started, expect>>

CallFfmpegCommand ==
    /\ call.fn = "FfmpegCommand" /\ ~call.done
    /\ call' = [call EXCEPT
                  !.done = TRUE,
                  !.out = FfmpegCommand(call.videoPath, RtmpURL, call.ciccione,
                                        call.quality, call.textBanner)]
    /\ UNCHANGED <<serverVars, listed, probe, queueVars>>

CallFfmpegIdleStreamCommand ==
    /\ call.fn = "FfmpegIdleStreamCommand" /\ ~call.done
    /\ call' = [call EXCEPT
                  !.done = TRUE,
                  !.out = FfmpegIdleStreamCommand(
                            RtmpURL, call.durationSeconds, call.nextMovie,
                            call.description, call.startTimeUnix, call.now)]
    /\ UNCHANGED <<serverVars, listed, probe, queueVars>>

BuilderNext == CallFfmpegCommand \/ CallFfmpegIdleStreamCommand

BuilderSpec == BuilderInit /\ [][BuilderNext]_vars

\* ------------------------------------------------------- duration prober
\* time.Second, with a time.Duration counted in milliseconds
Second == 1000

\* the digits of s before (part 1) and after (part 2) its first "."
SplitDot(s) ==
    IF \E i \in 1..Len(s) : s[i] = "."
    THEN LET d == CHOOSE i \in 1..Len(s) :
                      s[i] = "." /\ \A j \in 1..(i - 1) : s[j] # "."
         IN  <<SubSeq(s, 1, d - 1), SubSeq(s, d + 1, Len(s))>>
    ELSE <<s, <<>>>>

\* strconv.ParseFloat(s, 64) over unsigned decimal strings, the value given
\* in thousandths: "12.5" is 12500; anything else is a syntax error
ParseFloat(s) ==
    LET int == SplitDot(s)[1]
        frac == SplitDot(s)[2]
        milli == SubSeq(frac \o <<"0", "0", "0">>, 1, 3)
    IN  IF \/ Len(int) + Len(frac) = 0
           \/ \E i \in 1..Len(int) : int[i] \notin Range(Digits)
           \/ \E i \in 1..Len(frac) : frac[i] \notin Range(Digits)
        THEN [ok |-> FALSE, n |-> 0]
        ELSE [ok |-> TRUE,
              n |-> (IF Len(int) = 0 THEN 0 ELSE AtoiNat(int)) * 1000
                    + AtoiNat(milli)]

\* what running ffprobe can give: a failed run, or its standard output,
\* which is valid JSON or not and carries format.duration ("" when absent)
ProbeOutputs ==
    [run : {"ok", "failed"}, json : {"valid", "invalid"},
     Duration : {<<>>, <<"7">>, <<"1", "2", ".", "5">>, <<".", "2", "5", "9", "9">>,
                 <<"x">>, <<"1", ".", "2", ".", "3">>}]

\* GetVideoDuration: cmd.Output(), json.Unmarshal, strconv.ParseFloat, then
\* time.Duration(durationSeconds * float64(time.Second))
GetVideoDuration(output) ==
    IF output.run = "failed" THEN [dur |-> 0, err |-> "ffprobe failed"]
    ELSE IF output.json = "invalid" THEN [dur |-> 0, err |-> "failed to parse"]
    ELSE IF ~ParseFloat(output.Duration).ok
    THEN [dur |-> 0, err |-> "invalid duration"]
    ELSE [dur |-> (ParseFloat(output.Duration).n * Second) \div 1000, err |-> "nil"]

\* a call of GetDuration that has returned
Returned(index, path, invoked, e) ==
    [state |-> "done", index |-> index, path |-> path, invoked |-> invoked,
     err |-> e]

\* GetDuration as it would be if it sent every element to the probe
GetDurationProbesAll(index) ==
    /\ mu = "free"
    /\ probe.state # "probing"
    /\ IF index < 0 \/ index >= Len(playlist)
       THEN /\ probe' = Returned(index, "", FALSE, "out of bounds")
            /\ ret' = Ret("GetDuration", FALSE, 0)
       ELSE /\ probe' = [state |-> "probing", index |-> index,
                         path |-> At(index).path, invoked |-> FALSE,
                         err |-> "nil"]
            /\ UNCHANGED ret
    /\ UNCHANGED <<mu, playlist, currentlyPlaying, loop, playerCancel,
                   playerRunning, currentCancel, loopVars, ctxDone, itemDone,
                   started, expect, listed, call, queueVars>>

\* GetDuration as it would be if the video case kept the lock for the probe
GetDurationKeepsLock(index) ==
    /\ mu = "free"
    /\ probe.state # "probing"
    /\ IF index < 0 \/ index >= Len(playlist)
       THEN /\ probe' = Returned(index, "", FALSE, "out of bounds")
            /\ ret' = Ret("GetDuration", FALSE, 0)
            /\ UNCHANGED mu
       ELSE IF At(index).kind = "idle"
       THEN /\ probe' = Returned(index, "", FALSE, "nil")
            /\ ret' = Ret("GetDuration", TRUE, At(index).secs * Second)
            /\ UNCHANGED mu
       ELSE IF At(index).kind = "video"
       THEN /\ probe' = [state |-> "probing", index |-> index,
                         path |-> At(index).path, invoked |-> FALSE,
                         err |-> "nil"]
            /\ mu' = "GetDuration"
            /\ UNCHANGED ret
       ELSE /\ probe' = Returned(index, "", FALSE, "unknown type")
            /\ ret' = Ret("GetDuration", FALSE, 0)
            /\ UNCHANGED mu
    /\ UNCHANGED <<playlist, currentlyPlaying, loop, playerCancel,
                   playerRunning, currentCancel, loopVars, ctxDone, itemDone,
                   started, expect, listed, call, queueVars>>

\* GetDuration from s.mu.Lock() to the s.mu.Unlock() of the case taken: the
\* three cases that return at once, and the video case, which goes on to
\* GetVideoDuration with the path it copied
GetDuration(index) ==
    /\ mu = "free"
    /\ probe.state # "probing"
    /\ IF index < 0 \/ index >= Len(playlist)
       THEN /\ probe' = Returned(index, "", FALSE, "out of bounds")
            /\ ret' = Ret("GetDuration", FALSE, 0)
       ELSE IF At(index).kind = "idle"
       THEN /\ probe' = Returned(index, "", FALSE, "nil")
            /\ ret' = Ret("GetDuration", TRUE, At(index).secs * Second)
       ELSE IF At(index).kind = "video"
       THEN /\ probe' = [state |-> "probing", index |-> index,
                         path |-> At(index).path, invoked |-> FALSE,
                         err |-> "nil"]
            /\ UNCHANGED ret
       ELSE /\ probe' = Returned(index, "", FALSE, "unknown type")
            /\ ret' = Ret("GetDuration", FALSE, 0)
    /\ UNCHANGED <<mu, playlist, currentlyPlaying, loop, playerCancel,
                   playerRunning, currentCancel, loopVars, ctxDone, itemDone,
                   started, expect, listed, call, queueVars>>

\* dur, err := GetVideoDuration(context.Background(), path), outside the
\* lock, and the return of GetDuration
GetDurationProbe(output) ==
    /\ probe.state = "probing"
    /\ LET r == GetVideoDuration(output)
       IN  /\ probe' = Returned(probe.index, probe.path, TRUE, r.err)
           /\ ret' = Ret("GetDuration", r.err = "nil", r.dur)
    /\ UNCHANGED <<mu, playlist, currentlyPlaying, loop, playerCancel,
                   playerRunning, currentCancel, loopVars, ctxDone, itemDone,
                   started, expect, listed, call, queueVars>>

\* callers of GetDuration beside a loop that is streaming the first of two
\* elements
DurationNext ==
    \/ SupervisorNext
    \/ \E i \in -1..MaxLen : GetDuration(i)
    \/ \E output \in ProbeOutputs : GetDurationProbe(output)

DurationSpec == SupervisorInit /\ [][DurationNext]_vars

\* ------------------------------------------- escapeFFmpegText by itself
\* One application of escapeFFmpegText to each of two texts.
EscapeCalls ==
    [fn : {"escapeFFmpegText"}, text : ShortTexts, other : ShortTexts,
     done : {FALSE}, out : {<<>>}, otherOut : {<<>>}]

EscapeInit ==
    /\ NewServer
    /\ listed = NoList
    /\ probe = NoProbe
    /\ NewQueueServer
    /\ call \in EscapeCalls

CallEscapeFFmpegText ==
    /\ call.fn = "escapeFFmpegText" /\ ~call.done
    /\ call' = [call EXCEPT !.done = TRUE,
                            !.out = escapeFFmpegText(call.text),
                            !.otherOut = escapeFFmpegText(call.other)]
    /\ UNCHANGED <<serverVars, listed, probe, queueVars>>

EscapeNext == CallEscapeFFmpegText

EscapeSpec == EscapeInit /\ [][EscapeNext]_vars

\* ------------------------------------------- the video builder, called twice
\* Two calls of FfmpegCommand with the same arguments; between them time
\* passes and the scheduler is operated.
MaxTicks == 2    \* seconds that pass between the two calls

\* "a.mp4" and a path under /media
RepeatPaths == {<<"a", ".", "m", "p", "4">>, MediaPrefix \o <<"x">>}

RepeatInit ==
    /\ NewServer
    /\ listed = NoList
    /\ probe = NoProbe
    /\ NewQueueServer
    /\ call \in VideoCalls(RepeatPaths, {FALSE})

\* the clock goes on by one second
Tick ==
    /\ call.now < 5 + MaxTicks
    /\ call' = [call EXCEPT !.now = call.now + 1]
    /\ UNCHANGED <<serverVars, listed, probe, queueVars>>

\* the second call, with the arguments of the first
CallFfmpegCommandAgain ==
    /\ call.fn = "FfmpegCommand" /\ call.done /\ ~call.repeated
    /\ call' = [call EXCEPT
                  !.repeated = TRUE,
                  !.again = FfmpegCommand(call.videoPath, RtmpURL, call.ciccione,
                                          call.quality, call.textBanner)]
    /\ UNCHANGED <<serverVars, listed, probe, queueVars>>

RepeatNext ==
    \/ CallFfmpegCommand
    \/ CallFfmpegCommandAgain
    \/ Tick
    \/ \E p \in Paths : ServerAppend(p)
    \/ \E b \in BOOLEAN : SetLoop(b)
    \/ StartPlayer

RepeatSpec == RepeatInit /\ [][RepeatNext]_vars

\* ------------------------------------------------ the queue-based server
\* main.go: an earlier Server with a queue of strings that a worker
\* goroutine empties. Its fields mu and currentCancel are the variables of
\* the same names; the worker's position and locals are in `worker`.
MaxItems == 3    \* Enqueue calls explored

\* the scheduler of server.go, which main.go does not have
schedVars ==
    <<playlist, currentlyPlaying, loop, playerCancel, playerRunning, pc, item,
      itemIdx, err, ctxDone, itemDone, started, expect, listed, call, probe>>

\* calling the CancelFunc held in Server.currentCancel (nil is not called)
WorkerCancel(c) ==
    IF c = Nil THEN worker ELSE [worker EXCEPT ![c].itemDone = TRUE]

\* itemCtx of worker t is done: cancelled itself, or through the worker's ctx
WorkerDone(t) == worker[t].ctxDone \/ worker[t].itemDone

Enqueue ==
    /\ mu = "free"
    /\ hist.enqueued < MaxItems
    /\ queue' = Append(queue, hist.enqueued + 1)
    /\ hist' = [hist EXCEPT !.enqueued = @ + 1]
    /\ ret' = Ret("Enqueue", TRUE, Len(queue) + 1)
    /\ UNCHANGED <<mu, currentCancel, workerCancel, workerRunning,
                   currentItem, worker, schedVars>>

\* the queue after Dequeue as it would be without s.queue = s.queue[1:]
DequeueRestKeepsHead(q) == q

\* s.queue = s.queue[1:]
DequeueRest(q) == Tail(q)

\* the body of Server.Dequeue under the lock, for the caller `by`
DequeueBody(by) ==
    IF Len(queue) = 0
    THEN UNCHANGED <<queue, hist>>
    ELSE /\ queue' = DequeueRest(queue)
         /\ hist' = [hist EXCEPT
                       !.left = Append(@, [item |-> queue[1], by |-> by])]

\* Dequeue() called by the /deque handler
ServerDequeue ==
    /\ mu = "free"
    /\ DequeueBody("Dequeue")
    /\ ret' = IF Len(queue) = 0 THEN Ret("Dequeue", FALSE, NoItem)
              ELSE Ret("Dequeue", TRUE, queue[1])
    /\ UNCHANGED <<mu, currentCancel, workerCancel, workerRunning,
                   currentItem, worker, schedVars>>

\* the goroutine slot `go func()` takes
FreeWorkerSlot(t) ==
    /\ worker[t].pc = "dead"
    /\ \A u \in Tasks : u < t => worker[u].pc # "dead"

StartWorker ==
    /\ mu = "free"
    /\ IF workerRunning
       THEN /\ ret' = Ret("StartWorker", FALSE, 0)
            /\ UNCHANGED <<workerCancel, workerRunning, worker>>
       ELSE \E t \in Tasks :
            /\ FreeWorkerSlot(t)
            /\ workerCancel' = t
            /\ workerRunning' = TRUE
            /\ worker' = [worker EXCEPT ![t] = [NoWorker EXCEPT !.pc = "select"]]
            /\ ret' = Ret("StartWorker", TRUE, 0)
    /\ UNCHANGED <<mu, currentCancel, queue, currentItem, hist, schedVars>>

StopWorker ==
    /\ mu = "free"
    /\ IF ~workerRunning \/ workerCancel = Nil
       THEN /\ ret' = Ret("StopWorker", FALSE, 0)
            /\ UNCHANGED worker
       ELSE /\ worker' = [WorkerCancel(currentCancel) EXCEPT
                            ![workerCancel].ctxDone = TRUE]
            /\ ret' = Ret("StopWorker", TRUE, 0)
    /\ UNCHANGED <<mu, currentCancel, queue, workerCancel, workerRunning,
                   currentItem, hist, schedVars>>

\* the /next handler: cancel the current item only
NextHandler ==
    /\ mu = "free"
    /\ IF currentCancel = Nil
       THEN /\ ret' = Ret("next", FALSE, NoItem)
            /\ UNCHANGED <<currentCancel, currentItem, worker>>
       ELSE /\ worker' = WorkerCancel(currentCancel)
            /\ currentCancel' = Nil
            /\ currentItem' = NoItem
            /\ ret' = Ret("next", TRUE, currentItem)
    /\ UNCHANGED <<mu, queue, workerCancel, workerRunning, hist, schedVars>>

\* select { case <-ctx.Done(): return; default: ... }
WorkerSelect(t) ==
    /\ worker[t].pc = "select"
    /\ worker' = [worker EXCEPT
                    ![t].pc = IF worker[t].ctxDone THEN "defer" ELSE "dequeue"]
    /\ UNCHANGED <<mu, currentCancel, queue, workerCancel, workerRunning,
                   currentItem, hist, ret, schedVars>>

\* item, ok := s.Dequeue()
WorkerDequeue(t) ==
    /\ worker[t].pc = "dequeue"
    /\ mu = "free"
    /\ DequeueBody("worker")
    /\ worker' = IF Len(queue) = 0
                 THEN [worker EXCEPT ![t].pc = "sleep"]
                 ELSE [worker EXCEPT ![t].pc = "setcancel", ![t].item = queue[1]]
    /\ UNCHANGED <<mu, currentCancel, workerCancel, workerRunning,
                   currentItem, ret, schedVars>>

\* time.Sleep(600ms); continue
WorkerSleep(t) ==
    /\ worker[t].pc = "sleep"
    /\ worker' = [worker EXCEPT ![t].pc = "select"]
    /\ UNCHANGED <<mu, currentCancel, queue, workerCancel, workerRunning,
                   currentItem, hist, ret, schedVars>>

\* itemCtx, itemCancel := WithCancel(ctx); under the lock:
\* s.currentCancel = itemCancel; s.currentItem = item
WorkerSetCancel(t) ==
    /\ worker[t].pc = "setcancel"
    /\ mu = "free"
    /\ currentCancel' = t
    /\ currentItem' = worker[t].item
    /\ worker' = [worker EXCEPT ![t].pc = "stream", ![t].itemDone = FALSE]
    /\ UNCHANGED <<mu, queue, workerCancel, workerRunning, hist, ret,
                   schedVars>>

\* streamToRTMP(itemCtx, item, rtmpURL) up to cmd.Run(): exec refuses to
\* start under a done context
WorkerStream(t) ==
    /\ worker[t].pc = "stream"
    /\ hist' = [hist EXCEPT !.streamed = Append(@, worker[t].item)]
    /\ worker' = IF WorkerDone(t)
                 THEN [worker EXCEPT ![t].pc = "clear", ![t].err = "canceled"]
                 ELSE [worker EXCEPT ![t].pc = "running"]
    /\ UNCHANGED <<mu, currentCancel, queue, workerCancel, workerRunning,
                   currentItem, ret, schedVars>>

\* cmd.Run() returns: the process ended by itself or was killed; main.go's
\* streamToRTMP returns nil, ctx.Err() or the wrapped error
WorkerStreamEnd(t, runErr) ==
    /\ worker[t].pc = "running"
    /\ worker' = [worker EXCEPT
                    ![t].pc = "clear",
                    ![t].err = IF ~runErr THEN "nil"
                               ELSE IF WorkerDone(t) THEN "canceled"
                               ELSE "error"]
    /\ UNCHANGED <<mu, currentCancel, queue, workerCancel, workerRunning,
                   currentItem, hist, ret, schedVars>>

\* under the lock: s.currentCancel = nil; s.currentItem = ""
WorkerClear(t) ==
    /\ worker[t].pc = "clear"
    /\ mu = "free"
    /\ currentCancel' = Nil
    /\ currentItem' = NoItem
    /\ worker' = [worker EXCEPT ![t].pc = "select", ![t].item = NoItem,
                                ![t].err = "nil", ![t].itemDone = FALSE]
    /\ UNCHANGED <<mu, queue, workerCancel, workerRunning, hist, ret,
                   schedVars>>

\* the deferred cleanup: workerRunning = false; workerCancel = nil
WorkerDefer(t) ==
    /\ worker[t].pc = "defer"
    /\ mu = "free"
    /\ workerRunning' = FALSE
    /\ workerCancel' = Nil
    /\ worker' = [worker EXCEPT ![t] = NoWorker]
    /\ UNCHANGED <<mu, currentCancel, queue, currentItem, hist, ret,
                   schedVars>>

WorkerStep(t) ==
    \/ WorkerSelect(t)
    \/ WorkerDequeue(t)
    \/ WorkerSleep(t)
    \/ WorkerSetCancel(t)
    \/ WorkerStream(t)
    \/ \E runErr \in BOOLEAN : WorkerStreamEnd(t, runErr)
    \/ WorkerClear(t)
    \/ WorkerDefer(t)

QueueNext ==
    \/ Enqueue
    \/ ServerDequeue
    \/ StartWorker
    \/ StopWorker
    \/ NextHandler
    \/ \E t \in Tasks : WorkerStep(t)

QueueSpec == Init /\ [][QueueNext]_vars

\* ------------------------------------------------------------ properties
\* the step by which the loop of task t picks its next element (s.Current())
Picks(t) == pc[t] = "current" /\ pc'[t] # "current"

\* C1: with loop = true, a running player and a non-empty playlist of length
\* n, every Next() returns true and moves the index to (index + 1) mod n.
C1_NextCycles ==
    [][(ServerNext /\ loop /\ playerRunning /\ Len(playlist) > 0)
         => (ret'.ok /\ currentlyPlaying' = (currentlyPlaying + 1) % Len(playlist))]_vars

\* C2: after a single explicit Next() issued while playlist[i] is streaming
\* (i+1 valid), the next element the loop picks is playlist[i+1]: the loop's
\* own advance does not add a second one.
C2_NoDoubleAdvance ==
    [][\A t \in Tasks : (Picks(t) /\ expect.why = "next")
         => (pc'[t] = "setcancel" /\ itemIdx'[t] = expect.idx)]_vars

\* C3: with loop = true, after the element at the last index ends by itself
\* the next element the loop picks is playlist[0].
C3_WrapOnCompletion ==
    [][\A t \in Tasks : (Picks(t) /\ expect.why = "wrap")
         => (pc'[t] = "setcancel" /\ itemIdx'[t] = 0)]_vars

\* C4: every Status() call completes and leaves the scheduler lock free: no
\* state has a Status() call holding the lock while it waits for it again.
C4_StatusCompletes == mu # "Status"

\* C5: once the player was started, a non-empty playlist has
\* 0 <= currentlyPlaying < len(playlist).
C5_IndexInRange ==
    (started /\ Len(playlist) > 0)
        => (0 <= currentlyPlaying /\ currentlyPlaying < Len(playlist))

\* C6: while the player runs, a loop that looks for its next element in a
\* non-empty playlist gets one and goes on to stream it; it idle-waits only
\* on an empty playlist.
C6_NonEmptyIsStreamed ==
    [][\A t \in Tasks : (Picks(t) /\ playerRunning /\ Len(playlist) > 0)
         => pc'[t] = "setcancel"]_vars

\* C7: after StopPlayer() returned true the loop eventually exits and
\* playerRunning becomes false with playerCancel cleared.
C7_StopEndsRun ==
    (ret.op = "StopPlayer" /\ ret.ok) ~> (~playerRunning /\ playerCancel = Nil)

\* C8: StartPlayer() on a running scheduler returns false and changes
\* nothing, and at most one playerLoop goroutine is alive at any time.
C8_SingleLoop ==
    /\ [](Cardinality({t \in Tasks : Alive(t)}) <= 1)
    /\ [][(StartPlayer /\ playerRunning)
            => (/\ ~ret'.ok
                /\ UNCHANGED <<mu, playlist, currentlyPlaying, loop,
                               playerCancel, playerRunning, currentCancel,
                               pc, item, err, ctxDone, itemDone>>)]_vars

\* C8 witness: a StartPlayer() refused while the stopped loop has not exited
C8_Witness ==
    /\ ret.op = "StartPlayer" /\ ~ret.ok
    /\ \E t \in Tasks : Alive(t) /\ ctxDone[t]

\* C9: after a Previous() issued while playlist[i] (i >= 1) is streaming,
\* the next element the loop picks is playlist[i-1].
C9_PreviousPlaysPrevious ==
    [][\A t \in Tasks : (Picks(t) /\ expect.why = "prev")
         => (pc'[t] = "setcancel" /\ itemIdx'[t] = expect.idx)]_vars

\* C10: with loop = true, a running player and a non-empty playlist of
\* length n, Previous() at index 0 returns true and moves the index to n-1.
C10_PreviousWraps ==
    [][(Previous /\ loop /\ playerRunning /\ Len(playlist) > 0
          /\ currentlyPlaying = 0)
         => (ret'.ok /\ currentlyPlaying' = Len(playlist) - 1)]_vars

\* C11: with loop = false and a running player, Next() at the last valid
\* index returns false, leaves the index unchanged and cancels nothing;
\* Previous() at index 0 likewise returns false and changes nothing.
C11_NoLoopBoundary ==
    /\ [][(ServerNext /\ ~loop /\ playerRunning /\ Len(playlist) > 0
             /\ currentlyPlaying = Len(playlist) - 1)
            => (~ret'.ok /\ UNCHANGED <<mu, playlist, currentlyPlaying, loop,
                                        playerCancel, playerRunning,
                                        currentCancel, ctxDone, itemDone>>)]_vars
    /\ [][(Previous /\ ~loop /\ playerRunning /\ currentlyPlaying = 0)
            => (~ret'.ok /\ ~ret'.panic
                /\ UNCHANGED <<mu, playlist, currentlyPlaying, loop,
                               playerCancel, playerRunning, currentCancel,
                               ctxDone, itemDone>>)]_vars

\* C11 witness: Next() refused at the last index, loop = false, while that
\* element is being encoded and is not cancelled
C11_Witness ==
    /\ ret.op = "Next" /\ ~ret.ok /\ ~loop /\ playerRunning
    /\ Len(playlist) >= 2 /\ currentlyPlaying = Len(playlist) - 1
    /\ \E t \in Tasks : pc[t] = "running" /\ Streaming(t) /\ ~Done(t)

\* C12: on a stopped scheduler StopPlayer(), Next() and Previous() return
\* false and leave playlist, index, loop flag and both cancel handles as
\* they were.
C12_StoppedRefuses ==
    [][((StopPlayer \/ ServerNext \/ Previous) /\ ~playerRunning)
         => (~ret'.ok /\ ~ret'.panic
             /\ UNCHANGED <<mu, playlist, currentlyPlaying, loop, playerCancel,
                            playerRunning, currentCancel, ctxDone, itemDone>>)]_vars

\* C12 witness: Previous() refused on a player that ran, moved off index 0
\* and has stopped
C12_Witness ==
    /\ ret.op = "Previous" /\ ~ret.ok /\ ~playerRunning /\ started
    /\ currentlyPlaying >= 1 /\ Len(playlist) >= 1
    /\ \A t \in Tasks : ~Alive(t)

\* C13: a Next() or Previous() that cancels the in-flight element does not
\* end the run: playerRunning stays true, the run-level context stays
\* uncancelled, the index moves by the loop policy (modulo the length with
\* loop = true, by one otherwise), and the loop goes on to its next
\* iteration; it only leaves through a cancelled run-level context.
C13_ElementCancelKeepsRun ==
    /\ [][\A t \in Tasks :
            (ServerNext /\ ~itemDone[t] /\ itemDone'[t])
              => (/\ playerRunning' /\ ctxDone' = ctxDone
                  /\ playerCancel' = playerCancel
                  /\ currentlyPlaying' =
                       IF loop THEN (currentlyPlaying + 1) % Len(playlist)
                               ELSE currentlyPlaying + 1)]_vars
    /\ [][\A t \in Tasks :
            (Previous /\ ~itemDone[t] /\ itemDone'[t])
              => (/\ playerRunning' /\ ctxDone' = ctxDone
                  /\ playerCancel' = playerCancel
                  /\ currentlyPlaying' =
                       IF loop
                       THEN (currentlyPlaying - 1 + Len(playlist)) % Len(playlist)
                       ELSE currentlyPlaying - 1)]_vars
    /\ [](\A t \in Tasks : pc[t] = "defer" => ctxDone[t])
    /\ [][\A t \in Tasks :
            (pc[t] \in {"next", "clear", "select"} /\ ~ctxDone[t]
               /\ pc'[t] # pc[t])
              => pc'[t] \in {"clear", "select", "current"}]_vars

\* C13 witness: the element was cancelled at element level only, the call
\* returned Canceled, the loop has advanced and the run goes on
C13_Witness ==
    \E t \in Tasks :
        /\ pc[t] = "clear" /\ err[t] = "canceled"
        /\ ~ctxDone[t] /\ playerRunning /\ playerCancel = t

\* C14: when the supervisor returns a non-cancellation failure for the
\* element at index i (loop = true, at least two elements), the run goes on
\* and the failed element is skipped: the next element the loop picks is
\* not the one at index i, at the last index too.
C14_FailedElementSkipped ==
    [][\A t \in Tasks : (Picks(t) /\ expect.why = "fail")
         => (pc'[t] = "setcancel" /\ itemIdx'[t] # expect.idx)]_vars

\* C15: a StopPlayer() that returns true after the loop has read the current
\* element and before it recorded currentCancel (the element handle was nil
\* for StopPlayer) still ends that element's stream and the loop: the task
\* eventually exits.
C15_StopBeforeRecord ==
    expect.why = "stop" ~> (\A t \in Tasks : pc[t] = "dead")

\* C16: the player loop never holds the scheduler lock while it is in the
\* streaming call, so operations issued during streaming take the lock
\* without waiting for the element to end.
C16_NoLockWhileStreaming ==
    \A t \in Tasks : pc[t] \in {"stream", "running"} => mu # "playerLoop"

\* C16 witness: a Next() took the lock, cancelled the element and returned
\* while the encoder of that element was still running
C16_Witness ==
    /\ ret.op = "Next" /\ ret.ok /\ mu = "free"
    /\ \E t \in Tasks : pc[t] = "running" /\ currentCancel = t /\ itemDone[t]

\* C17: at most one external encode process is in flight at any time.
C17_OneEncode == Cardinality({t \in Tasks : pc[t] = "running"}) <= 1

\* C17 witness: an encode in flight for a later element of a run, after a
\* refused second StartPlayer()
C17_Witness ==
    /\ ret.op = "StartPlayer" /\ ~ret.ok
    /\ \E t \in Tasks : pc[t] = "running" /\ itemIdx[t] >= 1

\* C18: playerCancel is non-nil exactly when playerRunning is true.
C18_RunHandleIffRunning == (playerCancel # Nil) <=> playerRunning

\* C18 witness: a run has ended and both the flag and the handle are cleared
C18_Witness ==
    /\ started /\ ~playerRunning /\ playerCancel = Nil
    /\ \A t \in Tasks : pc[t] = "dead"

\* C19 (as claimed): currentCancel is non-nil exactly when an element is
\* being encoded.
C19_HandleIffEncoding ==
    (currentCancel # Nil) <=> (\E t \in Tasks : pc[t] = "running")

\* C19 (amended): currentCancel is the handle of task t exactly while t is
\* between recording it, just before the streaming call, and clearing it,
\* after the call has returned and the loop's s.Next() has run; so it is
\* non-nil whenever an element is being encoded and nil outside that section.
C19_HandleInSection ==
    /\ currentCancel \in Tasks \cup {Nil}
    /\ \A t \in Tasks :
         (currentCancel = t)
           <=> pc[t] \in {"unlock", "stream", "running", "next", "clear"}

\* C19 witness: the element has completed, the handle is not yet cleared
C19_Witness ==
    \E t \in Tasks : pc[t] = "next" /\ err[t] = "nil" /\ currentCancel = t

\* C20: StartPlayer() on a stopped scheduler returns true, resets the index
\* to 0, sets playerRunning with a fresh uncancelled run-level handle, adds
\* exactly one loop task and leaves playlist and loop flag unchanged.
C20_StartEffect ==
    [][(StartPlayer /\ ~playerRunning)
         => (/\ ret'.ok
             /\ currentlyPlaying' = 0
             /\ playerRunning'
             /\ playerCancel' # Nil
             /\ ~ctxDone'[playerCancel']
             /\ pc'[playerCancel'] = "select"
             /\ Cardinality({t \in Tasks : pc'[t] # "dead"})
                  = Cardinality({t \in Tasks : pc[t] # "dead"}) + 1
             /\ UNCHANGED <<playlist, loop>>)]_vars

\* C20 witness: StartPlayer() has just succeeded with loop = false and
\* several elements; the new task has not taken a step yet
C20_Witness ==
    /\ ret.op = "StartPlayer" /\ ret.ok /\ playerRunning
    /\ currentlyPlaying = 0 /\ ~loop /\ Len(playlist) >= 2
    /\ playerCancel # Nil /\ pc[playerCancel] = "select"
    /\ \A t \in Tasks : t # playerCancel => pc[t] = "dead"

\* ------------------------------------------- properties of PlaylistSpec
\* the playlist operations whose index argument is i, as steps
InsertStep(i) == \E e \in ListElements : Insert(i, e)

\* C21: Insert(index, item) succeeds exactly when 0 <= index <= len(playlist)
\* and Remove(index) exactly when 0 <= index < len(playlist); a rejected
\* call returns false and leaves the playlist as it was.
C21_IndexValidity ==
    /\ [][\A i \in -1..(MaxLen + 1) :
            InsertStep(i)
              => (/\ ret'.ok <=> (0 <= i /\ i <= Len(playlist))
                  /\ ~ret'.ok => playlist' = playlist)]_vars
    /\ [][\A i \in -1..MaxLen :
            Remove(i)
              => (/\ ret'.ok <=> (0 <= i /\ i < Len(playlist))
                  /\ ~ret'.ok => playlist' = playlist)]_vars

\* C21 witness: an accepted Insert has left an idle element last, after two
\* appended videos
C21_Witness ==
    /\ ret.op = "Insert" /\ ret.ok
    /\ Len(playlist) = 3 /\ playlist[3] = IdleElement(1)
    /\ playlist[1] = VideoElement("a") /\ playlist[2] = VideoElement("a")

\* C22: Append puts the item last and returns the new length; a successful
\* Insert(k, x) puts x at position k and keeps the other items in their
\* order; a successful Remove(k) returns the item that was at position k and
\* keeps the others in their order; Length() is the number of items.
C22_ScheduleOrder ==
    /\ [][\A p \in ListPaths :
            ServerAppend(p)
              => (/\ Len(playlist') = Len(playlist) + 1
                  /\ playlist'[Len(playlist')] = VideoElement(p)
                  /\ \A j \in 1..Len(playlist) : playlist'[j] = playlist[j]
                  /\ ret'.n = Len(playlist'))]_vars
    /\ [][\A k \in 0..MaxLen, x \in ListElements :
            (Insert(k, x) /\ ret'.ok)
              => (/\ Len(playlist') = Len(playlist) + 1
                  /\ playlist'[k + 1] = x
                  /\ \A j \in 1..Len(playlist) :
                       playlist'[IF j <= k THEN j ELSE j + 1] = playlist[j])]_vars
    /\ [][\A k \in 0..MaxLen :
            (Remove(k) /\ ret'.ok)
              => (/\ Len(playlist') = Len(playlist) - 1
                  /\ ret'.elem = playlist[k + 1]
                  /\ \A j \in 1..Len(playlist') :
                       playlist'[j] = playlist[IF j <= k THEN j ELSE j + 1])]_vars
    /\ [][Length => ret'.n = Len(playlist)]_vars

\* C22 witness: the middle one of three different items was removed
C22_Witness ==
    /\ ret.op = "Remove" /\ ret.ok /\ ret.elem = VideoElement("b")
    /\ playlist = <<IdleElement(1), VideoElement("a")>>

C24_OutcomeClassified ==
    /\ [][\A t \in Tasks, runErr \in BOOLEAN :
            (StreamEnd(t, runErr) \/ StreamKilled(t, runErr))
              => err'[t] = IF ~runErr THEN "nil"
                           ELSE IF ctxDone[t] \/ itemDone[t] THEN "canceled"
                           ELSE "error"]_vars
    /\ [][\A t \in Tasks :
            (StreamStart(t) /\ item[t].kind \notin {"video", "idle"})
              => (err'[t] = "unknown" /\ pc'[t] = "next")]_vars
    /\ [][\A t \in Tasks :
            pc'[t] = "running" => item[t].kind \in {"video", "idle"}]_vars
    /\ [](\A t \in Tasks :
            pc[t] = "next"
              => (/\ err[t] \in {"nil", "canceled", "error", "unknown"}
                  /\ LoopLogsError(t) <=> err[t] \in {"error", "unknown"}))

\* C24 witness: the encoder was killed by a Next() and the call returned the
\* cancellation value
C24_Witness ==
    /\ ret.op = "Next" /\ ret.ok
    /\ \E t \in Tasks : pc[t] = "next" /\ err[t] = "canceled" /\ itemDone[t]
                        /\ ~ctxDone[t] /\ item[t].kind = "idle"

\* ---------------------------------------------- properties of BuilderSpec
\* the argument that follows the first occurrence of a flag
ArgAfter(args, flag) ==
    args[(CHOOSE i \in 1..(Len(args) - 1) :
            /\ args[i] = <<flag>>
            /\ \A j \in 1..(i - 1) : args[j] # <<flag>>) + 1]

HasArg(args, flag) == \E i \in 1..Len(args) : args[i] = <<flag>>

\* a sequence starts with another
StartsWith(s, prefix) ==
    Len(s) >= Len(prefix) /\ SubSeq(s, 1, Len(prefix)) = prefix

\* a finished call of FfmpegCommand / of one that returned arguments
VideoCallDone == call.fn = "FfmpegCommand" /\ call.done

VideoArgs == VideoCallDone /\ call.out.panic = "none"

\* the profile the claims expect for the call: table[min(max(i, 0), n - 1)]
ExpectedQ ==
    LET table == IF call.ciccione THEN Qualities43 ELSE Qualities169
        i == call.quality
        k == IF i < 0 THEN 0 ELSE IF i > Len(table) - 1 THEN Len(table) - 1 ELSE i
    IN  table[k + 1]

\* C25: for every tier index and either aspect-ratio class the profile used
\* is table[min(max(index, 0), len(table) - 1)] of that class, and no table
\* read is out of range.
C25_TierClamped ==
    /\ VideoCallDone => call.out.panic # "index"
    /\ VideoArgs =>
         /\ ArgAfter(call.out.args, "-b:v") = ExpectedQ.VBitrate
         /\ ArgAfter(call.out.args, "-b:a") = ExpectedQ.ABitrate
         /\ StartsWith(ArgAfter(call.out.args, "-vf"),
                       <<"scale=">> \o Itoa(ExpectedQ.Width) \o <<":">>
                       \o Itoa(ExpectedQ.Height) \o <<",fps=">>
                       \o Itoa(ExpectedQ.FPS) \o <<",format=yuv420p">>)

\* C25 witness: a 4:3 call with a negative tier index got the first profile
C25_Witness ==
    /\ VideoArgs /\ call.ciccione /\ call.quality < 0
    /\ ArgAfter(call.out.args, "-b:v") = Qualities43[1].VBitrate

\* the encoder named in the arguments of the finished call
Encoder == ArgAfter(call.out.args, "-c:v")

\* C26: the encoder is libx264 exactly when the selected profile has width
\* >= 1920 and frame rate > 30, and h264_v4l2m2m in every other case; over
\* the tables that is the widescreen tier 0 only.
C26_EncoderChoice ==
    VideoArgs =>
        /\ Encoder \in {<<"libx264">>, <<"h264_v4l2m2m">>}
        /\ Encoder = <<"libx264">>
             <=> (ExpectedQ.Width >= 1920 /\ ExpectedQ.FPS > 30)
        /\ Encoder = <<"libx264">> <=> (~call.ciccione /\ call.quality <= 0)

\* C26 witness: widescreen tier 1 (1920 wide at 30 frames) got the hardware
\* encoder
C26_Witness ==
    /\ VideoArgs /\ ~call.ciccione /\ call.quality = 1
    /\ Encoder = <<"h264_v4l2m2m">>

\* a finished call of FfmpegIdleStreamCommand
IdleArgs ==
    call.fn = "FfmpegIdleStreamCommand" /\ call.done /\ call.out.panic = "none"

\* the text a filter embeds in the drawtext that is closed by the literal
\* `close`: the bytes between the nearest "drawtext=text='" before it and it
Embedded(f, close) ==
    LET j == CHOOSE n \in 1..Len(f) : f[n] = close
        i == CHOOSE n \in 1..(j - 1) :
                /\ f[n] = "drawtext=text='"
                /\ \A m \in (n + 1)..(j - 1) : f[m] # "drawtext=text='"
    IN  SubSeq(f, i + 1, j - 1)

\* the number of backslashes in a row just before position i of e
BackslashesBefore(e, i) ==
    CHOOSE k \in 0..(i - 1) :
        /\ \A j \in (i - k)..(i - 1) : e[j] = "\\"
        /\ k = i - 1 \/ e[i - k - 1] # "\\"

\* every colon, comma, bracket, quote and backslash of e is one that a
\* backslash escapes: read from the left, a byte after an odd number of
\* backslashes is an escaped one, and any other backslash escapes the next
WellEscaped(e) ==
    \A i \in 1..Len(e) :
        IF BackslashesBefore(e, i) % 2 = 1 THEN e[i] \in Special
        ELSE IF e[i] = "\\" THEN i < Len(e)
        ELSE e[i] \notin Special

\* where byte i of the text t stands in its escaped form
EscapedPos(t, i) == i + Cardinality({j \in 1..i : t[j] \in Special})

\* e is the text t with a backslash put before each of its special bytes
IsEscapeOf(e, t) ==
    /\ Len(e) = Len(t) + Cardinality({j \in 1..Len(t) : t[j] \in Special})
    /\ \A i \in 1..Len(t) :
         /\ e[EscapedPos(t, i)] = t[i]
         /\ t[i] \in Special => e[EscapedPos(t, i) - 1] = "\\"

\* the label, title and description as the filters of the call embed them
EmbeddedLabel ==
    Embedded(ArgAfter(call.out.args, "-vf"), "':fontsize=24:fontcolor=white:")

EmbeddedTitle ==
    Embedded(ArgAfter(call.out.args, "-i"), "':fontsize=46:fontcolor=white:")

EmbeddedDescription ==
    Embedded(ArgAfter(call.out.args, "-i"), "':fontsize=22:fontcolor=#cccccc:")

\* C27: every free-form text embedded in a filter string (the banner label
\* taken from the source path, the idle title, the idle description) has
\* each colon, comma, square bracket, single quote and backslash escaped.
C27_AllTextEscaped ==
    /\ (VideoArgs /\ call.textBanner) => WellEscaped(EmbeddedLabel)
    /\ IdleArgs =>
         /\ WellEscaped(EmbeddedTitle)
         /\ IsEscapeOf(EmbeddedTitle, call.nextMovie)
         /\ WellEscaped(EmbeddedDescription)
         /\ IsEscapeOf(EmbeddedDescription, call.description)

\* the description drawtext of the finished idle call is the static centered
\* one / the horizontally scrolling one
StaticDescription ==
    \E n \in 1..Len(ArgAfter(call.out.args, "-i")) :
        ArgAfter(call.out.args, "-i")[n] = "x=(w-text_w)/2:y=h/2+60:"

ScrollingDescription ==
    \E n \in 1..Len(ArgAfter(call.out.args, "-i")) :
        ArgAfter(call.out.args, "-i")[n] = "x=w-mod(t*80\\,w+tw):y=h/2+60:"

\* C28: the idle builder renders the description as static centered text
\* when its length is at most 80 and as a scrolling ticker when its length
\* is 81 or more.
C28_StaticUpTo80 ==
    IdleArgs =>
        /\ StaticDescription <=> Len(call.description) <= 80
        /\ ScrollingDescription <=> Len(call.description) >= 81

\* C28 witness: a description of exactly 80 quotes, 160 bytes once escaped,
\* was rendered static
C28_Witness ==
    /\ IdleArgs /\ StaticDescription /\ ~ScrollingDescription
    /\ call.description = Repeat("'", 80)
    /\ Len(EmbeddedDescription) = 160

\* C29: the banner label embedded in the filter has one fixed width for
\* every source path: a shorter label is padded to 150 and a longer one is
\* truncated to 150.
C29_LabelWidth ==
    (VideoArgs /\ call.textBanner) => Len(EmbeddedLabel) = 150

\* the arguments only the software branch adds
SoftwareOnlyFlags ==
    {"-preset", "-tune", "-profile:v", "-level:v", "-keyint_min",
     "-sc_threshold", "-threads"}

\* the target video bitrate of the expected profile, in kbit
ExpectedKbit ==
    AtoiNat(SubSeq(ExpectedQ.VBitrate, 1, Len(ExpectedQ.VBitrate) - 1))

\* C30 (as claimed): the keyframe interval, the buffer allowance and the
\* encoding preset are emitted only when the software encoder is selected;
\* the argument list built for the hardware encoder has none of them.
C30_RateControlSoftwareOnly ==
    VideoArgs =>
        /\ Encoder = <<"libx264">>
             => (/\ ArgAfter(call.out.args, "-g") = Itoa(2 * ExpectedQ.FPS)
                 /\ ArgAfter(call.out.args, "-bufsize") = Kbit(2 * ExpectedKbit)
                 /\ HasArg(call.out.args, "-preset"))
        /\ Encoder = <<"h264_v4l2m2m">>
             => (/\ ~HasArg(call.out.args, "-g")
                 /\ ~HasArg(call.out.args, "-bufsize")
                 /\ ~HasArg(call.out.args, "-preset"))

\* C30 (amended): the keyframe interval (-g, twice the frame rate) and the
\* buffer allowance (-bufsize, twice the target video bitrate) are emitted
\* for both encoders; the encoding preset and the other arguments of the
\* software branch are emitted exactly when the software encoder is selected.
C30_PresetSoftwareOnly ==
    VideoArgs =>
        /\ ArgAfter(call.out.args, "-g") = Itoa(2 * ExpectedQ.FPS)
        /\ ArgAfter(call.out.args, "-bufsize") = Kbit(2 * ExpectedKbit)
        /\ ArgAfter(call.out.args, "-maxrate") = ExpectedQ.VBitrate
        /\ \A f \in SoftwareOnlyFlags :
             HasArg(call.out.args, f) <=> Encoder = <<"libx264">>
        /\ Encoder = <<"libx264">>
             => (/\ ArgAfter(call.out.args, "-preset") = <<"veryfast">>
                 /\ ArgAfter(call.out.args, "-keyint_min")
                      = Itoa(2 * ExpectedQ.FPS))

\* C30 witness: the hardware arguments of widescreen tier 1 (30 frames,
\* 8000k) carry -g 60 and -bufsize 16000k and no preset
C30_Witness ==
    /\ VideoArgs /\ ~call.ciccione /\ call.quality = 1
    /\ Encoder = <<"h264_v4l2m2m">>
    /\ ArgAfter(call.out.args, "-g") = <<"6", "0">>
    /\ ArgAfter(call.out.args, "-bufsize") = <<"1", "6", "0", "0", "0", "k">>
    /\ ~HasArg(call.out.args, "-preset")

\* the fields of the scheduler a call of GetDuration has no business with
SchedulerState ==
    <<playlist, currentlyPlaying, loop, playerCancel, playerRunning,
      currentCancel, pc, item, err, ctxDone, itemDone>>

\* C31: GetDuration(index) on an idle element returns at once, with no
\* error and exactly IdleSeconds seconds, and never reaches the external
\* probe.
C31_IdleDirect ==
    [][\A i \in 0..(MaxLen - 1) :
         (GetDuration(i) /\ i < Len(playlist) /\ At(i).kind = "idle")
           => /\ probe'.state = "done"
              /\ ~probe'.invoked
              /\ probe'.err = "nil"
              /\ ret' = Ret("GetDuration", TRUE, At(i).secs * Second)]_vars

\* C31 witness: the call for the idle element of 2 seconds at index 0 has
\* returned 2 seconds while the loop is streaming that element
C31_Witness ==
    /\ probe.state = "done" /\ probe.index = 0 /\ ~probe.invoked
    /\ At(0) = IdleElement(2)
    /\ ret = Ret("GetDuration", TRUE, 2 * Second)
    /\ pc[1] = "running"

\* values of format.duration that are not a number
Unparsable == {<<>>, <<"x">>, <<"1", ".", "2", ".", "3">>}

\* C32: GetDuration returns an error and a zero duration for an index
\* outside the playlist, for a failed probe run and for probe output that
\* cannot be parsed; every step of it leaves the playlist, the index, the
\* flags, the cancel handles and the loop as they were, and when it has
\* returned the lock is free.
C32_ProbeFailureContained ==
    [][/\ \A i \in -1..MaxLen :
            (GetDuration(i) /\ (i < 0 \/ i >= Len(playlist)))
              => (probe'.state = "done" /\ probe'.err # "nil"
                  /\ ret' = Ret("GetDuration", FALSE, 0))
       /\ \A output \in ProbeOutputs :
            (GetDurationProbe(output)
               /\ (\/ output.run = "failed"
                   \/ output.json = "invalid"
                   \/ output.Duration \in Unparsable))
              => (probe'.err # "nil" /\ ret' = Ret("GetDuration", FALSE, 0))
       /\ ((\E i \in -1..MaxLen : GetDuration(i))
             \/ (\E output \in ProbeOutputs : GetDurationProbe(output)))
              => /\ UNCHANGED SchedulerState
                 /\ probe'.state = "done" => mu' = "free"]_vars

\* C32 witness: the probe of the video at index 1 has failed while the loop
\* is streaming the element at index 0, and the lock is free
C32_Witness ==
    /\ probe.state = "done" /\ probe.index = 1 /\ probe.invoked
    /\ probe.err = "ffprobe failed"
    /\ ret = Ret("GetDuration", FALSE, 0)
    /\ pc[1] = "running" /\ currentlyPlaying = 0 /\ mu = "free"

C34_HandedIsCurrent ==
    [][\A t \in Tasks :
         LoopSetCancel(t)
           => (/\ currentlyPlaying < Len(playlist)
               /\ itemIdx[t] = currentlyPlaying
               /\ item[t] = At(currentlyPlaying))]_vars

\* C35: no control operation ends in a run-time panic: Next() and Previous()
\* return a boolean in every state, also Previous() with loop = true on a
\* running player whose playlist was emptied or shortened under an index of
\* 1 or more.
C35_NoPanic == ~ret.panic

\* C36: after an Insert() or a Remove() at an index below currentlyPlaying,
\* made while the element X at currentlyPlaying streams, and the natural
\* end of X, the next element the loop picks is the one that follows X in
\* the playlist: none is skipped and X is not streamed again.
C36_EditBelowKeepsOrder ==
    [][\A t \in Tasks : (Picks(t) /\ expect.why = "below")
         => (pc'[t] = "setcancel" /\ itemIdx'[t] = expect.idx)]_vars

\* C37: FfmpegCommand with the banner requested returns an argument list for
\* every source path, also one shorter than the prefix getTextFilter removes.
C37_BannerForEveryPath ==
    (VideoCallDone /\ call.textBanner)
        => (call.out.panic = "none" /\ Len(call.out.args) > 0)

\* C38: whenever playerRunning is false, currentCancel is nil: no element
\* handle outlives its run, IsPlaying() is false in every stopped state and
\* a later StartPlayer() finds no element recorded.
C38_NoStaleHandle == ~playerRunning => currentCancel = Nil

\* C38 witness: StopPlayer() came while the loop held an element without a
\* handle; the loop then recorded the handle, found the context done,
\* cleared the handle and ended the run
C38_Witness ==
    /\ started /\ ~playerRunning /\ currentCancel = Nil
    /\ expect.why = "stop" /\ ret.op = "StopPlayer" /\ ret.ok
    /\ \A t \in Tasks : pc[t] = "dead"

\* the items that have left the queue, in the order they left
Left == [i \in 1..Len(hist.left) |-> hist.left[i].item]

\* C39: in the queue-based server every enqueued item is either still queued
\* or has left the queue exactly once, taken by the worker or by Dequeue();
\* items leave in the order they were enqueued; the worker streams only
\* items it took itself and none twice; a /next skip cancels the context of
\* the current item only, leaving the queue, the worker's own context and
\* workerRunning as they were, and a worker whose context is not done goes
\* on to take the item at the head of the queue.
C39_QueueOnceInOrder ==
    [][/\ (Left \o queue)' = [i \in 1..hist'.enqueued |-> i]
       /\ \A i, j \in 1..Len(hist'.streamed) :
            i # j => hist'.streamed[i] # hist'.streamed[j]
       /\ \A i \in 1..Len(hist'.streamed) :
            \E k \in 1..Len(hist'.left) :
                hist'.left[k] = [item |-> hist'.streamed[i], by |-> "worker"]
       /\ (NextHandler /\ currentCancel # Nil)
            => /\ UNCHANGED <<queue, workerCancel, workerRunning>>
               /\ \A t \in Tasks :
                    /\ worker'[t].ctxDone = worker[t].ctxDone
                    /\ worker'[t].pc = worker[t].pc
                    /\ worker'[t].itemDone # worker[t].itemDone
                         => t = currentCancel
       /\ \A t \in Tasks :
            /\ (WorkerSelect(t) /\ ~worker[t].ctxDone)
                 => worker'[t].pc = "dequeue"
            /\ (WorkerDequeue(t) /\ Len(queue) > 0)
                 => (worker'[t].item = queue[1] /\ worker'[t].pc = "setcancel")]_vars

\* C39 witness: of three items the first was taken by the worker and skipped
\* by /next, the second was taken by Dequeue(), and the worker is streaming
\* the third
C39_Witness ==
    /\ hist.left = <<[item |-> 1, by |-> "worker"], [item |-> 2, by |-> "Dequeue"],
                     [item |-> 3, by |-> "worker"]>>
    /\ hist.streamed = <<1, 3>>
    /\ ret.op = "next" /\ ret.ok /\ ret.n = 1
    /\ \E t \in Tasks : worker[t].pc = "running" /\ worker[t].item = 3
    /\ currentItem = 3 /\ workerRunning

\* the positions of e that do not hold an escaping backslash (a backslash
\* after an even number of backslashes)
KeptPositions(e) ==
    {i \in 1..Len(e) : ~(e[i] = "\\" /\ BackslashesBefore(e, i) % 2 = 0)}

\* e with the backslash before each escaped byte removed
Unescape(e) ==
    [k \in 1..Cardinality(KeptPositions(e)) |->
        e[CHOOSE i \in KeptPositions(e) :
              Cardinality({j \in KeptPositions(e) : j <= i}) = k]]

\* C40: escapeFFmpegText puts one backslash before each colon, quote,
\* square bracket, comma and backslash of its input, does not escape the
\* backslashes it puts, and copies every other byte; removing the backslash
\* before each escaped byte gives the input back, and two different inputs
\* give two different outputs.
C40_EscapeOnePass ==
    (call.fn = "escapeFFmpegText" /\ call.done)
        => /\ IsEscapeOf(call.out, call.text)
           /\ WellEscaped(call.out)
           /\ Unescape(call.out) = call.text
           /\ call.text # call.other => call.out # call.otherOut

\* C40 witness: a backslash then a colon became four bytes, and the colon
\* alone, a different input, became the last two of them
C40_Witness ==
    /\ call.fn = "escapeFFmpegText" /\ call.done
    /\ call.text = <<"\\", ":">> /\ call.out = <<"\\", "\\", "\\", ":">>
    /\ call.other = <<":">> /\ call.otherOut = <<"\\", ":">>

====
